---------------------------- MODULE Spec2Model ----------------------------
(***************************************************************************)
(* A model of the Tiny scripting language core (src/src/tiny.c): the       *)
(* code generator, the stack virtual machine of one Tiny_StateThread, its  *)
(* mark-and-sweep collector and the embedding API a host drives it with.   *)
(*                                                                         *)
(* Program counters, stack indices and table indices are 0-based as in C;  *)
(* the TLA+ sequences that hold the arrays are read at index + 1.          *)
(***************************************************************************)
EXTENDS Integers, Sequences, FiniteSets, TLC

(***************************************************************************)
(* Sizes.  The two thread sizes are compile-time tunables of tiny.h        *)
(* (#ifndef ... #define); the model builds the library with small ones.    *)
(***************************************************************************)
TINY_THREAD_STACK_SIZE == 8
TINY_THREAD_INDIR_SIZE == 9
\* MAX_STACK is defined in tiny_detail.h; the value stack's capacity.
MAX_STACK == TINY_THREAD_STACK_SIZE
\* thread->maxNumObjects after Tiny_InitThread
INIT_GC_THRESH == 8
\* how many objects one thread may allocate in a run of the model
MaxObjects == 14
\* how many Tiny_CallFunction calls the host makes from outside the VM
MaxHostCalls == 1
\* how many times the host calls Tiny_StartThread
MaxStarts == 1
\* how many steps a call is followed for before it counts as not returning
MaxRunSteps == 60

(***************************************************************************)
(* Values (Tiny_Value): a type tag and the union, held as one integer:     *)
(* boolean 0/1, the number, the literal-pool index of a constant string,   *)
(* the address of a light native, or the identity of a heap object.        *)
(***************************************************************************)
Tiny_Value(type, val) == [type |-> type, val |-> val]
Tiny_Null == Tiny_Value("NULL", 0)
Tiny_NewBool(value) == Tiny_Value("BOOL", IF value THEN 1 ELSE 0)
Tiny_NewNumber(value) == Tiny_Value("NUM", value)
Tiny_NewConstString(str) == Tiny_Value("CONST_STRING", str)
Tiny_NewLightNative(ptr) == Tiny_Value("LIGHT_NATIVE", ptr)

(***************************************************************************)
(* Opcodes, numbered as the enum numbers them.                             *)
(***************************************************************************)
OP_PUSH_NULL == 0
OP_PUSH_TRUE == 1
OP_PUSH_FALSE == 2
OP_PUSH_NUMBER == 3
OP_PUSH_STRING == 4
OP_POP == 5
OP_ADD == 6
OP_SUB == 7
OP_MUL == 8
OP_DIV == 9
OP_MOD == 10
OP_OR == 11
OP_AND == 12
OP_LT == 13
OP_LTE == 14
OP_GT == 15
OP_GTE == 16
OP_EQU == 17
OP_LOG_NOT == 18
OP_LOG_AND == 19
OP_LOG_OR == 20
OP_PRINT == 21
OP_SET == 22
OP_GET == 23
OP_READ == 24
OP_GOTO == 25
OP_GOTOZ == 26
OP_CALL == 27
OP_RETURN == 28
OP_RETURN_VALUE == 29
OP_CALLF == 30
OP_GETLOCAL == 31
OP_SETLOCAL == 32
OP_GET_RETVAL == 33
OP_HALT == 34

(***************************************************************************)
(* Integer immediates: four bytes, least significant first, two's          *)
(* complement.                                                             *)
(***************************************************************************)
\* the unsigned value of the low 31 bits of a 32-bit int
Low31(value) == IF value < 0 THEN (value + 2147483647) + 1 ELSE value

IntBytes(value) ==
    LET u == Low31(value)
        b3 == (u \div 16777216) % 128
    IN  << u % 256,
           (u \div 256) % 256,
           (u \div 65536) % 256,
           IF value < 0 THEN b3 + 128 ELSE b3 >>

BytesInt(b) ==
    LET low == b[1] + 256 * b[2] + 65536 * b[3] + 16777216 * (b[4] % 128)
    IN  IF b[4] >= 128 THEN (low - 2147483647) - 1 ELSE low

\* GenerateCode: append one byte to the program
GenerateCode(cs, inst) == [cs EXCEPT !.program = Append(@, inst)]

\* GenerateInt: append the four bytes of value
GenerateInt(cs, value) == [cs EXCEPT !.program = @ \o IntBytes(value)]

\* GenerateIntAt writing the offset one past the one it is given
GenerateIntAt_OneOff(cs, value, pc) ==
    [cs EXCEPT !.program =
        [i \in 1..Len(@) |->
            IF i - 1 >= pc /\ i - 1 < pc + 4 THEN IntBytes(value + 1)[i - pc] ELSE @[i]]]

\* GenerateIntAt: overwrite the four bytes at pc .. pc + 3
GenerateIntAt(cs, value, pc) ==
    [cs EXCEPT !.program =
        [i \in 1..Len(@) |->
            IF i - 1 >= pc /\ i - 1 < pc + 4 THEN IntBytes(value)[i - pc] ELSE @[i]]]


(***************************************************************************)
(* Literal pools (Numbers, Strings): process-wide, append-only.            *)
(***************************************************************************)
RECURSIVE PoolFind(_, _, _)
\* the first index i >= from with pool[i] = value, or -1
PoolFind(pool, value, from) ==
    IF from >= Len(pool) THEN -1
    ELSE IF pool[from + 1] = value THEN from
    ELSE PoolFind(pool, value, from + 1)

\* RegisterNumber without the search of the pool
RegisterNumber_Append(pool, value) ==
    [index |-> Len(pool), pool |-> Append(pool, value)]

\* RegisterNumber: the index of value, appended when it is not in the pool
RegisterNumber(pool, value) ==
    LET i == PoolFind(pool, value, 0)
    IN  IF i >= 0 THEN [index |-> i, pool |-> pool]
        ELSE [index |-> Len(pool), pool |-> Append(pool, value)]

(***************************************************************************)
(* Expression trees (Expr) as the parser builds them: identifiers carry    *)
(* the symbol the parser resolved, number and string nodes the pool index. *)
(* NoExpr stands for a NULL child.                                         *)
(***************************************************************************)
NoExpr == [type |-> "NONE"]

\* ReferenceFunction: the first FUNCTION or FOREIGN_FUNCTION symbol of that name
ReferenceFunction(globalSymbols, name) ==
    LET hits == {i \in 1..Len(globalSymbols) :
                    /\ globalSymbols[i].type \in {"FUNCTION", "FOREIGN_FUNCTION"}
                    /\ globalSymbols[i].name = name}
    IN  IF hits = {} THEN NoExpr
        ELSE globalSymbols[CHOOSE i \in hits : \A j \in hits : i <= j]

\* a compile error: ReportErrorE prints and exits
CompileFail(cs) == [cs EXCEPT !.failed = TRUE]

\* CompileGetId: load a global, a local/argument, or a constant
CompileGetId(cs, exp) ==
    IF exp.sym.type = "NONE" THEN CompileFail(cs)
    ELSE IF exp.sym.type = "GLOBAL"
        THEN GenerateInt(GenerateCode(cs, OP_GET), exp.sym.index)
    ELSE IF exp.sym.type = "LOCAL"
        THEN GenerateInt(GenerateCode(cs, OP_GETLOCAL), exp.sym.index)
    ELSE IF exp.sym.isString
        THEN GenerateInt(GenerateCode(cs, OP_PUSH_STRING), exp.sym.index)
    ELSE GenerateInt(GenerateCode(cs, OP_PUSH_NUMBER), exp.sym.index)

\* the opcode of a binary operator in expression position (-1: an assignment)
BinaryOpcode(op) ==
    CASE op = "+" -> OP_ADD
      [] op = "*" -> OP_MUL
      [] op = "/" -> OP_DIV
      [] op = "%" -> OP_MOD
      [] op = "|" -> OP_OR
      [] op = "&" -> OP_AND
      [] op = "-" -> OP_SUB
      [] op = "<" -> OP_LT
      [] op = ">" -> OP_GT
      [] op = "==" -> OP_EQU
      [] op = "!=" -> OP_EQU
      [] op = "<=" -> OP_LTE
      [] op = ">=" -> OP_GTE
      [] op = "and" -> OP_LOG_AND
      [] op = "or" -> OP_LOG_OR
      [] OTHER -> -1

\* the opcode a compound assignment applies before the store (-1: = and :=)
CompoundOpcode(op) ==
    CASE op = "+=" -> OP_ADD
      [] op = "-=" -> OP_SUB
      [] op = "*=" -> OP_MUL
      [] op = "/=" -> OP_DIV
      [] op = "%=" -> OP_MOD
      [] op = "&=" -> OP_AND
      [] op = "|=" -> OP_OR
      [] OTHER -> -1

AssignOps == {"=", ":=", "+=", "-=", "*=", "/=", "%=", "&=", "|="}

RECURSIVE CompileExpr(_, _)
RECURSIVE CompileArgs(_, _, _)
RECURSIVE CompileStatement(_, _)
RECURSIVE CompileBlock(_, _, _)
RECURSIVE GenerateLocals(_, _)

\* CompileCall's loop over the arguments run from the last argument to the
\* first
RECURSIVE CompileArgs_RightToLeft(_, _, _)
CompileArgs_RightToLeft(cs, args, i) ==
    IF i > Len(args) THEN cs
    ELSE CHOOSE c2 \in {CompileExpr(c1, args[i]) :
                            c1 \in {CompileArgs_RightToLeft(cs, args, i + 1)}} : TRUE

\* CompileCall's loop over the arguments, left to right
CompileArgs(cs, args, i) ==
    IF i > Len(args) THEN cs
    ELSE CHOOSE c2 \in {CompileArgs(c1, args, i + 1) :
                            c1 \in {CompileExpr(cs, args[i])}} : TRUE

\* CompileCall that rejects a call whose argument count differs from the
\* callee's parameter count
CompileCall_CheckedCount(cs, exp) ==
    LET c1 == CompileArgs(cs, exp.args, 1)
        sym == ReferenceFunction(c1.globalSymbols, exp.calleeName)
    IN  IF sym.type = "NONE" THEN CompileFail(c1)
        ELSE IF sym.type = "FOREIGN_FUNCTION"
            THEN GenerateInt(GenerateInt(GenerateCode(c1, OP_CALLF), Len(exp.args)), sym.index)
        ELSE IF Len(sym.args) # Len(exp.args) THEN CompileFail(c1)
        ELSE GenerateInt(GenerateInt(GenerateCode(c1, OP_CALL), Len(exp.args)), sym.index)

\* CompileCall: the arguments, then CALLF or CALL with the argument count
CompileCall(cs, exp) ==
    LET c1 == CompileArgs(cs, exp.args, 1)
        sym == ReferenceFunction(c1.globalSymbols, exp.calleeName)
    IN  IF sym.type = "NONE" THEN CompileFail(c1)
        ELSE IF sym.type = "FOREIGN_FUNCTION"
            THEN GenerateInt(GenerateInt(GenerateCode(c1, OP_CALLF), Len(exp.args)), sym.index)
        ELSE GenerateInt(GenerateInt(GenerateCode(c1, OP_CALL), Len(exp.args)), sym.index)

\* CompileExpr: code that pushes the value of exp
CompileExpr(cs, exp) ==
    CASE exp.type = "NULL" -> GenerateCode(cs, OP_PUSH_NULL)
      [] exp.type = "ID" -> CompileGetId(cs, exp)
      [] exp.type = "BOOL" ->
            GenerateCode(cs, IF exp.boolean THEN OP_PUSH_TRUE ELSE OP_PUSH_FALSE)
      [] exp.type = "NUM" -> GenerateInt(GenerateCode(cs, OP_PUSH_NUMBER), exp.number)
      [] exp.type = "STRING" -> GenerateInt(GenerateCode(cs, OP_PUSH_STRING), exp.string)
      [] exp.type = "CALL" -> GenerateCode(CompileCall(cs, exp), OP_GET_RETVAL)
      [] exp.type = "BINARY" ->
            IF BinaryOpcode(exp.op) < 0 THEN CompileFail(cs)
            ELSE LET c2 == CompileExpr(CompileExpr(cs, exp.lhs), exp.rhs)
                     c3 == GenerateCode(c2, BinaryOpcode(exp.op))
                 IN  IF exp.op = "!=" THEN GenerateCode(c3, OP_LOG_NOT) ELSE c3
      [] exp.type = "PAREN" -> CompileExpr(cs, exp.paren)
      [] exp.type = "UNARY" ->
            LET c1 == CompileExpr(cs, exp.exp)
            IN  IF exp.op = "-"
                THEN LET r == RegisterNumber(c1.Numbers, -1)
                         c2 == GenerateInt(GenerateCode([c1 EXCEPT !.Numbers = r.pool],
                                                        OP_PUSH_NUMBER), r.index)
                     IN  GenerateCode(c2, OP_MUL)
                ELSE IF exp.op = "not" THEN GenerateCode(c1, OP_LOG_NOT)
                ELSE CompileFail(c1)
      [] OTHER -> CompileFail(cs)

\* the EXP_BLOCK loop: the code of statement i (c1, computed once), then the
\* statements after it
CompileBlock(cs, block, i) ==
    IF i > Len(block) THEN cs
    ELSE CHOOSE c2 \in {CompileBlock(c1, block, i + 1) :
                            c1 \in {CompileStatement(cs, block[i])}} : TRUE

\* the function prologue: one PUSH_NUMBER 0 for each of the n locals
GenerateLocals(cs, n) ==
    IF n = 0 THEN cs
    ELSE LET r == RegisterNumber(cs.Numbers, 0)
         IN  GenerateLocals(
                GenerateInt(GenerateCode([cs EXCEPT !.Numbers = r.pool], OP_PUSH_NUMBER),
                            r.index),
                n - 1)

\* the assignment statement that compiles its right side twice, leaving the
\* first value on the stack
CompileAssign_KeepValue(cs, exp) ==
    IF exp.lhs.type # "ID" THEN CompileFail(cs)
    ELSE LET c0 == CompileExpr(cs, exp.rhs)
             c1 == IF CompoundOpcode(exp.op) >= 0
                   THEN GenerateCode(CompileExpr(CompileGetId(c0, exp.lhs), exp.rhs),
                                     CompoundOpcode(exp.op))
                   ELSE CompileExpr(c0, exp.rhs)
             sym == exp.lhs.sym
         IN  IF sym.type = "GLOBAL" THEN GenerateInt(GenerateCode(c1, OP_SET), sym.index)
             ELSE IF sym.type = "LOCAL"
                 THEN GenerateInt(GenerateCode(c1, OP_SETLOCAL), sym.index)
             ELSE CompileFail(c1)

\* the assignment family in statement position
CompileAssign(cs, exp) ==
    IF exp.lhs.type # "ID" THEN CompileFail(cs)
    ELSE LET c1 == IF CompoundOpcode(exp.op) >= 0
                   THEN GenerateCode(CompileExpr(CompileGetId(cs, exp.lhs), exp.rhs),
                                     CompoundOpcode(exp.op))
                   ELSE CompileExpr(cs, exp.rhs)
             sym == exp.lhs.sym
         IN  IF sym.type = "GLOBAL" THEN GenerateInt(GenerateCode(c1, OP_SET), sym.index)
             ELSE IF sym.type = "LOCAL"
                 THEN GenerateInt(GenerateCode(c1, OP_SETLOCAL), sym.index)
             ELSE CompileFail(c1)

\* EXP_PROC whose GOTO is patched with the entry pc instead of the end
CompileProc_SkipToEntry(cs, exp) ==
    LET c1 == GenerateCode(cs, OP_GOTO)
        skipGotoPc == Len(c1.program)
        c2 == GenerateInt(c1, 0)
        c3 == [c2 EXCEPT !.functionPcs[exp.decl.index + 1] = Len(c2.program)]
        c4 == GenerateLocals(c3, exp.decl.nlocals)
        c5 == IF exp.body.type # "NONE" THEN CompileStatement(c4, exp.body) ELSE c4
        c6 == GenerateCode(c5, OP_RETURN)
    IN  GenerateIntAt(c6, Len(c2.program), skipGotoPc)

\* EXP_PROC that records the entry pc after the prologue
CompileProc_EntryAfterLocals(cs, exp) ==
    LET c1 == GenerateCode(cs, OP_GOTO)
        skipGotoPc == Len(c1.program)
        c2 == GenerateInt(c1, 0)
        c3 == GenerateLocals(c2, exp.decl.nlocals)
        c4 == [c3 EXCEPT !.functionPcs[exp.decl.index + 1] = Len(c3.program)]
        c5 == IF exp.body.type # "NONE" THEN CompileStatement(c4, exp.body) ELSE c4
        c6 == GenerateCode(c5, OP_RETURN)
    IN  GenerateIntAt(c6, Len(c6.program), skipGotoPc)

\* EXP_PROC: GOTO over the body, the entry pc, the prologue, the body, RETURN
CompileProc(cs, exp) ==
    LET c1 == GenerateCode(cs, OP_GOTO)
        skipGotoPc == Len(c1.program)
        c2 == GenerateInt(c1, 0)
        c3 == [c2 EXCEPT !.functionPcs[exp.decl.index + 1] = Len(c2.program)]
        c4 == GenerateLocals(c3, exp.decl.nlocals)
        c5 == IF exp.body.type # "NONE" THEN CompileStatement(c4, exp.body) ELSE c4
        c6 == GenerateCode(c5, OP_RETURN)
    IN  GenerateIntAt(c6, Len(c6.program), skipGotoPc)

\* EXP_IF: cond; GOTOZ else; body; GOTO end; else: alt; end:
CompileIf(cs, exp) ==
    LET c1 == GenerateCode(CompileExpr(cs, exp.cond), OP_GOTOZ)
        skipGotoPc == Len(c1.program)
        c2 == GenerateInt(c1, 0)
        c3 == IF exp.body.type # "NONE" THEN CompileStatement(c2, exp.body) ELSE c2
        c4 == GenerateCode(c3, OP_GOTO)
        exitGotoPc == Len(c4.program)
        c5 == GenerateInt(c4, 0)
        c6 == GenerateIntAt(c5, Len(c5.program), skipGotoPc)
        c7 == IF exp.alt.type # "NONE" THEN CompileStatement(c6, exp.alt) ELSE c6
    IN  GenerateIntAt(c7, Len(c7.program), exitGotoPc)

\* EXP_WHILE: cond: cond; GOTOZ end; body; GOTO cond; end:
CompileWhile(cs, exp) ==
    LET condPc == Len(cs.program)
        c1 == GenerateCode(CompileExpr(cs, exp.cond), OP_GOTOZ)
        skipGotoPc == Len(c1.program)
        c2 == GenerateInt(c1, 0)
        c3 == IF exp.body.type # "NONE" THEN CompileStatement(c2, exp.body) ELSE c2
        c4 == GenerateInt(GenerateCode(c3, OP_GOTO), condPc)
    IN  GenerateIntAt(c4, Len(c4.program), skipGotoPc)

\* EXP_FOR that emits the step before the body
CompileFor_StepFirst(cs, exp) ==
    LET c0 == CompileStatement(cs, exp.init)
        condPc == Len(c0.program)
        c1 == GenerateCode(CompileExpr(c0, exp.cond), OP_GOTOZ)
        skipGotoPc == Len(c1.program)
        c2 == GenerateInt(c1, 0)
        c3 == CompileStatement(c2, exp.step)
        c4 == IF exp.body.type # "NONE" THEN CompileStatement(c3, exp.body) ELSE c3
        c5 == GenerateInt(GenerateCode(c4, OP_GOTO), condPc)
    IN  GenerateIntAt(c5, Len(c5.program), skipGotoPc)

\* EXP_FOR: init; cond: cond; GOTOZ end; body; step; GOTO cond; end:
CompileFor(cs, exp) ==
    LET c0 == CompileStatement(cs, exp.init)
        condPc == Len(c0.program)
        c1 == GenerateCode(CompileExpr(c0, exp.cond), OP_GOTOZ)
        skipGotoPc == Len(c1.program)
        c2 == GenerateInt(c1, 0)
        c3 == IF exp.body.type # "NONE" THEN CompileStatement(c2, exp.body) ELSE c2
        c4 == CompileStatement(c3, exp.step)
        c5 == GenerateInt(GenerateCode(c4, OP_GOTO), condPc)
    IN  GenerateIntAt(c5, Len(c5.program), skipGotoPc)

\* CompileStatement: code that leaves the stack as it found it
CompileStatement(cs, exp) ==
    CASE exp.type = "CALL" -> CompileCall(cs, exp)
      [] exp.type = "BLOCK" -> CompileBlock(cs, exp.block, 1)
      [] exp.type = "BINARY" ->
            IF exp.op = "::" THEN cs
            ELSE IF exp.op \in AssignOps THEN CompileAssign(cs, exp)
            ELSE CompileFail(cs)
      [] exp.type = "PROC" -> CompileProc(cs, exp)
      [] exp.type = "IF" -> CompileIf(cs, exp)
      [] exp.type = "WHILE" -> CompileWhile(cs, exp)
      [] exp.type = "FOR" -> CompileFor(cs, exp)
      [] exp.type = "RETURN" ->
            IF exp.retExpr.type # "NONE"
            THEN GenerateCode(CompileExpr(cs, exp.retExpr), OP_RETURN_VALUE)
            ELSE GenerateCode(cs, OP_RETURN)
      [] OTHER -> CompileFail(cs)

\* CompileProgram: every top-level statement in order
CompileProgram(cs, prog) == CompileBlock(cs, prog, 1)

\* BuildForeignFunctions storing each callee one slot further (the last in slot 0)
BuildForeignFunctions_Shifted(globalSymbols, numForeignFunctions) ==
    [k \in 1..numForeignFunctions |->
        LET hits == {i \in 1..Len(globalSymbols) :
                        /\ globalSymbols[i].type = "FOREIGN_FUNCTION"
                        /\ globalSymbols[i].index = k % numForeignFunctions}
        IN  globalSymbols[CHOOSE i \in hits : \A j \in hits : i >= j].callee]

\* BuildForeignFunctions: the callee of every FOREIGN_FUNCTION symbol, by index
BuildForeignFunctions(globalSymbols, numForeignFunctions) ==
    [k \in 1..numForeignFunctions |->
        LET hits == {i \in 1..Len(globalSymbols) :
                        /\ globalSymbols[i].type = "FOREIGN_FUNCTION"
                        /\ globalSymbols[i].index = k - 1}
        IN  globalSymbols[CHOOSE i \in hits : \A j \in hits : i >= j].callee]

\* CompileState that appends after the HALT of the compilation before
CompileState_KeepHalt(state, pools, parsed) ==
    LET kept == state.program
        \* realloc keeps the old entries; the new ones hold no pc yet (-1)
        pcs == [k \in 1..parsed.numFunctions |->
                    IF k <= Len(state.functionPcs) THEN state.functionPcs[k] ELSE -1]
        cs0 == [program |-> kept, functionPcs |-> pcs, Numbers |-> pools.Numbers,
                globalSymbols |-> parsed.globalSymbols, failed |-> FALSE]
        cs1 == GenerateCode(CompileProgram(cs0, parsed.prog), OP_HALT)
    IN  [program |-> cs1.program,
         numGlobalVars |-> parsed.numGlobalVars,
         numFunctions |-> parsed.numFunctions,
         functionPcs |-> cs1.functionPcs,
         numForeignFunctions |-> parsed.numForeignFunctions,
         foreignFunctions |->
            BuildForeignFunctions(parsed.globalSymbols, parsed.numForeignFunctions),
         globalSymbols |-> parsed.globalSymbols,
         Numbers |-> cs1.Numbers,
         Strings |-> pools.Strings,
         failed |-> cs1.failed]

(***************************************************************************)
(* CompileState on a State.  parsed is what ParseProgram left: the         *)
(* statements, the symbols and counters in the State, the literal pools.   *)
(* The result is the State the threads run, with the pools beside it.      *)
(***************************************************************************)
CompileState(state, pools, parsed) ==
    LET kept == IF Len(state.program) > 0 /\ state.program[Len(state.program)] = OP_HALT
                THEN SubSeq(state.program, 1, Len(state.program) - 1)
                ELSE state.program
        \* realloc keeps the old entries; the new ones hold no pc yet (-1)
        pcs == [k \in 1..parsed.numFunctions |->
                    IF k <= Len(state.functionPcs) THEN state.functionPcs[k] ELSE -1]
        cs0 == [program |-> kept, functionPcs |-> pcs, Numbers |-> pools.Numbers,
                globalSymbols |-> parsed.globalSymbols, failed |-> FALSE]
        cs1 == GenerateCode(CompileProgram(cs0, parsed.prog), OP_HALT)
    IN  [program |-> cs1.program,
         numGlobalVars |-> parsed.numGlobalVars,
         numFunctions |-> parsed.numFunctions,
         functionPcs |-> cs1.functionPcs,
         numForeignFunctions |-> parsed.numForeignFunctions,
         foreignFunctions |->
            BuildForeignFunctions(parsed.globalSymbols, parsed.numForeignFunctions),
         globalSymbols |-> parsed.globalSymbols,
         Numbers |-> cs1.Numbers,
         Strings |-> pools.Strings,
         failed |-> cs1.failed]

\* Tiny_CreateState: an empty program and empty tables
Tiny_CreateState ==
    [program |-> << >>, numGlobalVars |-> 0, numFunctions |-> 0, functionPcs |-> << >>,
     numForeignFunctions |-> 0, foreignFunctions |-> << >>, globalSymbols |-> << >>,
     currScope |-> 0, currFunc |-> 0]

(***************************************************************************)
(* The symbol table of a State.  globalSymbols holds the GLOBAL, CONST,    *)
(* FUNCTION and FOREIGN_FUNCTION symbols in declaration order; a FUNCTION  *)
(* symbol holds its arguments and its locals (both LOCAL symbols).         *)
(* currFunc is the position in globalSymbols of the function being parsed, *)
(* 0 for NULL.  A compile error ends the process: failed is set and the    *)
(* State is not used again.                                                *)
(***************************************************************************)
\* a NULL Symbol*
NoSymbol == [type |-> "NONE"]

\* ReportError: print and exit(1)
ReportError(st) == [st EXCEPT !.failed = TRUE]

\* evaluate x, then F on its value
Bind(x, F(_)) == CHOOSE r \in {F(v) : v \in {x}} : TRUE

\* the first symbol of syms at one of the positions hits, NULL when there is none
FirstSymbol(syms, hits) ==
    IF hits = {} THEN NoSymbol ELSE syms[CHOOSE i \in hits : \A j \in hits : i <= j]

\* RegisterString: the index of string, appended when it is not in the pool
RegisterString(pool, string) ==
    LET i == PoolFind(pool, string, 0)
    IN  IF i >= 0 THEN [index |-> i, pool |-> pool]
        ELSE [index |-> Len(pool), pool |-> Append(pool, string)]

\* state->currFunc->func.locals and ->func.args (empty outside a function)
CurrLocals(st) == IF st.currFunc = 0 THEN << >> ELSE st.globalSymbols[st.currFunc].locals
CurrArgs(st) == IF st.currFunc = 0 THEN << >> ELSE st.globalSymbols[st.currFunc].args

\* OpenScope: one level deeper
OpenScope(st) == [st EXCEPT !.currScope = @ + 1]

\* CloseScope that deletes the locals of the closing scope
CloseScope_Remove(st) ==
    LET locals == CurrLocals(st)
        kept == SelectSeq(locals, LAMBDA sym : sym.scope # st.currScope)
        st1 == IF st.currFunc # 0
               THEN [st EXCEPT !.globalSymbols[st.currFunc].locals = kept]
               ELSE st
    IN  [st1 EXCEPT !.currScope = @ - 1]

\* CloseScope: mark the current function's locals of the current depth as
\* scope-ended, then one level up
CloseScope(st) ==
    LET locals == CurrLocals(st)
        ended == [i \in 1..Len(locals) |->
                    IF locals[i].scope = st.currScope
                    THEN [locals[i] EXCEPT !.scopeEnded = TRUE] ELSE locals[i]]
        st1 == IF st.currFunc # 0
               THEN [st EXCEPT !.globalSymbols[st.currFunc].locals = ended]
               ELSE st
    IN  [st1 EXCEPT !.currScope = @ - 1]

\* ReferenceVariable that looks at the arguments before the locals
ReferenceVariable_ArgsFirst(st, name) ==
    LET locals == CurrLocals(st)
        args == CurrArgs(st)
        local == FirstSymbol(locals, {i \in 1..Len(locals) :
                                        ~locals[i].scopeEnded /\ locals[i].name = name})
        arg == FirstSymbol(args, {i \in 1..Len(args) : args[i].name = name})
        global == FirstSymbol(st.globalSymbols,
                              {i \in 1..Len(st.globalSymbols) :
                                    /\ st.globalSymbols[i].type \in {"GLOBAL", "CONST"}
                                    /\ st.globalSymbols[i].name = name})
    IN  IF arg # NoSymbol THEN arg
        ELSE IF local # NoSymbol THEN local
        ELSE global

\* ReferenceVariable: the first local of the current function that is not
\* scope-ended and has the name, else the first argument, else the first
\* GLOBAL or CONST symbol, else NULL
ReferenceVariable(st, name) ==
    LET locals == CurrLocals(st)
        args == CurrArgs(st)
        local == FirstSymbol(locals, {i \in 1..Len(locals) :
                                        ~locals[i].scopeEnded /\ locals[i].name = name})
        arg == FirstSymbol(args, {i \in 1..Len(args) : args[i].name = name})
        global == FirstSymbol(st.globalSymbols,
                              {i \in 1..Len(st.globalSymbols) :
                                    /\ st.globalSymbols[i].type \in {"GLOBAL", "CONST"}
                                    /\ st.globalSymbols[i].name = name})
    IN  IF local # NoSymbol THEN local
        ELSE IF arg # NoSymbol THEN arg
        ELSE global

\* a GLOBAL or LOCAL symbol as Symbol_create and the Declare functions fill it
VarSymbol(type, name, index, scope) ==
    [type |-> type, name |-> name, index |-> index, scope |-> scope,
     scopeEnded |-> FALSE, initialized |-> FALSE]

\* DeclareGlobalVar: an error when a global or constant has the name
DeclareGlobalVar(st, name) ==
    LET sym == ReferenceVariable(st, name)
    IN  IF sym.type \in {"GLOBAL", "CONST"} THEN ReportError(st)
        ELSE [st EXCEPT
                !.globalSymbols = Append(@, VarSymbol("GLOBAL", name, st.numGlobalVars, 0)),
                !.numGlobalVars = @ + 1]

\* DeclareArgument: an error when the function has an argument of that name;
\* argument i of nargs (counted from 0) gets index -nargs + i
DeclareArgument(st, name, nargs) ==
    LET args == CurrArgs(st)
    IN  IF st.currFunc = 0 THEN ReportError(st)
        ELSE IF \E i \in 1..Len(args) : args[i].name = name THEN ReportError(st)
        ELSE [st EXCEPT !.globalSymbols[st.currFunc].args =
                            Append(@, VarSymbol("LOCAL", name, -nargs + Len(args), 0))]

\* DeclareLocal that gives a new local the slot of a local whose scope ended
DeclareLocal_ReuseEnded(st, name) ==
    LET locals == CurrLocals(st)
        live == SelectSeq(locals, LAMBDA sym : ~sym.scopeEnded)
    IN  IF st.currFunc = 0 THEN ReportError(st)
        ELSE IF \E i \in 1..Len(locals) :
                    ~locals[i].scopeEnded /\ locals[i].name = name
            THEN ReportError(st)
        ELSE [st EXCEPT !.globalSymbols[st.currFunc].locals =
                            Append(@, VarSymbol("LOCAL", name, Len(live), st.currScope))]

\* DeclareLocal that looks for the name among the locals of the current
\* scope depth only
DeclareLocal_SameScopeOnly(st, name) ==
    LET locals == CurrLocals(st)
    IN  IF st.currFunc = 0 THEN ReportError(st)
        ELSE IF \E i \in 1..Len(locals) :
                    /\ ~locals[i].scopeEnded /\ locals[i].name = name
                    /\ locals[i].scope = st.currScope
            THEN ReportError(st)
        ELSE [st EXCEPT !.globalSymbols[st.currFunc].locals =
                            Append(@, VarSymbol("LOCAL", name, Len(locals), st.currScope))]

\* DeclareLocal: an error when a local that is not scope-ended has the name;
\* the new local gets the next index and the current depth
DeclareLocal(st, name) ==
    LET locals == CurrLocals(st)
    IN  IF st.currFunc = 0 THEN ReportError(st)
        ELSE IF \E i \in 1..Len(locals) :
                    ~locals[i].scopeEnded /\ locals[i].name = name
            THEN ReportError(st)
        ELSE [st EXCEPT !.globalSymbols[st.currFunc].locals =
                            Append(@, VarSymbol("LOCAL", name, Len(locals), st.currScope))]

\* DeclareConst: an error when a visible variable or constant has the name
DeclareConst(st, name, isString, index) ==
    LET sym == ReferenceVariable(st, name)
    IN  IF sym.type \in {"CONST", "LOCAL", "GLOBAL"} THEN ReportError(st)
        ELSE [st EXCEPT !.globalSymbols =
                            Append(@, [type |-> "CONST", name |-> name, index |-> index,
                                       isString |-> isString])]

\* DeclareFunction: the next function index, no arguments and no locals yet
DeclareFunction(st, name) ==
    [st EXCEPT !.globalSymbols =
                    Append(@, [type |-> "FUNCTION", name |-> name,
                               index |-> st.numFunctions, args |-> << >>,
                               locals |-> << >>]),
               !.numFunctions = @ + 1]

\* Tiny_BindFunction: exit when a foreign function has the name
Tiny_BindFunction(st, name, func) ==
    IF \E i \in 1..Len(st.globalSymbols) :
            /\ st.globalSymbols[i].type = "FOREIGN_FUNCTION"
            /\ st.globalSymbols[i].name = name
    THEN ReportError(st)
    ELSE [st EXCEPT !.globalSymbols =
                        Append(@, [type |-> "FOREIGN_FUNCTION", name |-> name,
                                   index |-> st.numForeignFunctions, callee |-> func]),
                    !.numForeignFunctions = @ + 1]

\* Tiny_BindConstNumber: DeclareConst(name, false, RegisterNumber(number))
Tiny_BindConstNumber(st, name, number) ==
    LET r == RegisterNumber(st.Numbers, number)
    IN  DeclareConst([st EXCEPT !.Numbers = r.pool], name, FALSE, r.index)

\* Tiny_BindConstString: DeclareConst(name, true, RegisterString(string))
Tiny_BindConstString(st, name, string) ==
    LET r == RegisterString(st.Strings, string)
    IN  DeclareConst([st EXCEPT !.Strings = r.pool], name, TRUE, r.index)

\* Tiny_GetGlobalIndex that also finds constants
Tiny_GetGlobalIndex_AnyVariable(st, name) ==
    LET sym == FirstSymbol(st.globalSymbols,
                           {i \in 1..Len(st.globalSymbols) :
                                /\ st.globalSymbols[i].type \in {"GLOBAL", "CONST"}
                                /\ st.globalSymbols[i].name = name})
    IN  IF sym = NoSymbol THEN -1 ELSE sym.index

\* Tiny_GetGlobalIndex: the index of the first GLOBAL symbol of the name, or -1
Tiny_GetGlobalIndex(st, name) ==
    LET sym == FirstSymbol(st.globalSymbols,
                           {i \in 1..Len(st.globalSymbols) :
                                /\ st.globalSymbols[i].type = "GLOBAL"
                                /\ st.globalSymbols[i].name = name})
    IN  IF sym = NoSymbol THEN -1 ELSE sym.index

\* Tiny_GetFunctionIndex: the index of the first FUNCTION symbol of the name, or -1
Tiny_GetFunctionIndex(st, name) ==
    LET sym == FirstSymbol(st.globalSymbols,
                           {i \in 1..Len(st.globalSymbols) :
                                /\ st.globalSymbols[i].type = "FUNCTION"
                                /\ st.globalSymbols[i].name = name})
    IN  IF sym = NoSymbol THEN -1 ELSE sym.index

(***************************************************************************)
(* The parser, on the tree the token stream spells (identifiers by name,   *)
(* literals by value).  It declares and resolves symbols and registers     *)
(* literals in the order ParseFactor and ParseBinRhs meet them; the result *)
(* is the State after it and the Expr tree CompileProgram takes.           *)
(***************************************************************************)
RECURSIVE ParseExpr(_, _)
RECURSIVE ParseList(_, _, _, _)

\* ParseExpr on items[i], items[i + 1], ... in order; done are the trees so far
ParseList(st, items, i, done) ==
    IF i > Len(items) THEN [st |-> st, exps |-> done]
    ELSE Bind(ParseExpr(st, items[i]),
              LAMBDA p : ParseList(p.st, items, i + 1, Append(done, p.exp)))

RECURSIVE DeclareArguments(_, _, _)
\* the loop of TOK_PROC over the parameter names
DeclareArguments(st, args, i) ==
    IF i > Len(args) THEN st
    ELSE DeclareArguments(DeclareArgument(st, args[i], Len(args)), args, i + 1)

\* TOK_PROC up to the body: an error inside a function; else the function
\* symbol becomes currFunc, its arguments are declared, a scope is opened
BeginProc(st, name, args) ==
    IF st.currFunc # 0 THEN ReportError(st)
    ELSE OpenScope(DeclareArguments([DeclareFunction(st, name) EXCEPT
                                        !.currFunc = Len(st.globalSymbols) + 1],
                                    args, 1))

\* TOK_PROC after the body: the scope is closed, currFunc is NULL again
EndProc(st) == [CloseScope(st) EXCEPT !.currFunc = 0]

\* TOK_PROC: declare the function and its arguments, parse the body in a
\* scope of its own
ParseProc(st, src) ==
    LET st1 == BeginProc(st, src.name, src.args)
    IN  IF st1.failed THEN [st |-> st1, exp |-> NoExpr]
        ELSE Bind(ParseExpr(st1, src.body),
                  LAMBDA p :
                    LET sym == p.st.globalSymbols[st1.currFunc]
                    IN  [st |-> EndProc(p.st),
                         exp |-> [type |-> "PROC",
                                  decl |-> [type |-> "FUNCTION", name |-> sym.name,
                                            index |-> sym.index,
                                            nargs |-> Len(sym.args),
                                            nlocals |-> Len(sym.locals)],
                                  body |-> p.exp]])

\* ParseBinRhs for one operator: the left operand, the declaration that :=
\* makes, the right operand, the constant that :: declares
ParseBinary(st, src) ==
    Bind(ParseExpr(st, src.lhs),
         LAMBDA l :
            LET declares == src.op = ":=" /\ l.exp.type = "ID"
                st1 == IF src.op # ":=" THEN l.st
                       ELSE IF l.exp.type # "ID" THEN ReportError(l.st)
                       ELSE IF l.st.currFunc # 0 THEN DeclareLocal(l.st, l.exp.name)
                       ELSE DeclareGlobalVar(l.st, l.exp.name)
                declared == IF st1.currFunc # 0
                            THEN CurrLocals(st1)[Len(CurrLocals(st1))]
                            ELSE st1.globalSymbols[Len(st1.globalSymbols)]
                lhs == IF declares /\ ~st1.failed
                       THEN [l.exp EXCEPT !.sym = declared] ELSE l.exp
            IN  Bind(ParseExpr(st1, src.rhs),
                     LAMBDA r :
                        LET st2 == IF src.op # "::" THEN r.st
                                   ELSE IF lhs.type # "ID" THEN ReportError(r.st)
                                   ELSE IF r.exp.type = "NUM"
                                       THEN DeclareConst(r.st, lhs.name, FALSE, r.exp.number)
                                   ELSE IF r.exp.type = "STRING"
                                       THEN DeclareConst(r.st, lhs.name, TRUE, r.exp.string)
                                   ELSE ReportError(r.st)
                        IN  [st |-> st2,
                             exp |-> [type |-> "BINARY", op |-> src.op, lhs |-> lhs,
                                      rhs |-> r.exp]]))

\* ParseFactor and ParseBinRhs; a NULL child stays NULL
ParseExpr(st, src) ==
    CASE src.type = "NONE" -> [st |-> st, exp |-> NoExpr]
      [] src.type \in {"NULL", "BOOL"} -> [st |-> st, exp |-> src]
      [] src.type = "ID" ->
            [st |-> st,
             exp |-> [type |-> "ID", name |-> src.name,
                      sym |-> ReferenceVariable(st, src.name)]]
      [] src.type = "NUM" ->
            LET r == RegisterNumber(st.Numbers, src.value)
            IN  [st |-> [st EXCEPT !.Numbers = r.pool],
                 exp |-> [type |-> "NUM", number |-> r.index]]
      [] src.type = "STRING" ->
            LET r == RegisterString(st.Strings, src.value)
            IN  [st |-> [st EXCEPT !.Strings = r.pool],
                 exp |-> [type |-> "STRING", string |-> r.index]]
      [] src.type = "CALL" ->
            Bind(ParseList(st, src.args, 1, << >>),
                 LAMBDA p : [st |-> p.st,
                             exp |-> [type |-> "CALL", calleeName |-> src.calleeName,
                                      args |-> p.exps]])
      [] src.type = "UNARY" ->
            Bind(ParseExpr(st, src.exp),
                 LAMBDA p : [st |-> p.st,
                             exp |-> [type |-> "UNARY", op |-> src.op, exp |-> p.exp]])
      [] src.type = "PAREN" ->
            Bind(ParseExpr(st, src.paren),
                 LAMBDA p : [st |-> p.st, exp |-> [type |-> "PAREN", paren |-> p.exp]])
      [] src.type = "BINARY" -> ParseBinary(st, src)
      [] src.type = "BLOCK" ->
            Bind(ParseList(OpenScope(st), src.block, 1, << >>),
                 LAMBDA p : [st |-> CloseScope(p.st),
                             exp |-> [type |-> "BLOCK", block |-> p.exps]])
      [] src.type = "PROC" -> ParseProc(st, src)
      [] src.type = "IF" ->
            Bind(ParseList(st, << src.cond, src.body, src.alt >>, 1, << >>),
                 LAMBDA p : [st |-> p.st,
                             exp |-> [type |-> "IF", cond |-> p.exps[1],
                                      body |-> p.exps[2], alt |-> p.exps[3]]])
      [] src.type = "WHILE" ->
            Bind(ParseExpr(st, src.cond),
                 LAMBDA c :
                    Bind(ParseExpr(OpenScope(c.st), src.body),
                         LAMBDA b : [st |-> CloseScope(b.st),
                                     exp |-> [type |-> "WHILE", cond |-> c.exp,
                                              body |-> b.exp]]))
      [] src.type = "FOR" ->
            Bind(ParseList(OpenScope(st), << src.init, src.cond, src.step, src.body >>,
                           1, << >>),
                 LAMBDA p : [st |-> CloseScope(p.st),
                             exp |-> [type |-> "FOR", init |-> p.exps[1],
                                      cond |-> p.exps[2], step |-> p.exps[3],
                                      body |-> p.exps[4]]])
      [] src.type = "RETURN" ->
            Bind(ParseExpr(st, src.retExpr),
                 LAMBDA p : [st |-> p.st, exp |-> [type |-> "RETURN", retExpr |-> p.exp]])
      [] OTHER -> [st |-> ReportError(st), exp |-> NoExpr]

\* ParseProgram: the statements up to the end of the source
ParseProgram(st, source) == ParseList(st, source, 1, << >>)

\* Tiny_CompileString / Tiny_CompileFile: ParseProgram, then CompileState;
\* the process has exited when failed is set
Tiny_CompileString(st, source) ==
    Bind(ParseProgram(st, source),
         LAMBDA p :
            IF p.st.failed THEN p.st
            ELSE Bind(CompileState(p.st,
                                   [Numbers |-> p.st.Numbers, Strings |-> p.st.Strings],
                                   [prog |-> p.exps, globalSymbols |-> p.st.globalSymbols,
                                    numGlobalVars |-> p.st.numGlobalVars,
                                    numFunctions |-> p.st.numFunctions,
                                    numForeignFunctions |-> p.st.numForeignFunctions]),
                      LAMBDA c :
                        [p.st EXCEPT !.program = c.program,
                                     !.functionPcs = c.functionPcs,
                                     !.foreignFunctions = c.foreignFunctions,
                                     !.Numbers = c.Numbers, !.failed = c.failed]))

(***************************************************************************)
(* State of the model.                                                     *)
(*   state   the compiled Tiny_State the thread runs (with the pools)      *)
(*   thread  the Tiny_StateThread, its heap of Tiny_Objects, the host's    *)
(*           activations on the C stack (cstack) and whether the process   *)
(*           still runs (status)                                           *)
(*   hist    what the last operations did, kept for the properties         *)
(***************************************************************************)
VARIABLES state, thread, hist

vars == <<state, thread, hist>>

\* thread->globalVars == NULL
NoGlobals == << >>

(***************************************************************************)
(* Process outcomes.  "exit": exit(1) or a failed assert; "ub": the C      *)
(* code read or wrote outside an object; "hung": a call never returns.     *)
(***************************************************************************)
Fatal(t, why) == IF t.status = "ok" THEN [t EXCEPT !.status = why] ELSE t

(***************************************************************************)
(* Heap objects (Tiny_Object).  An object's identity is its position in    *)
(* thread.heap, which keeps freed objects too; gcHead is the linked list   *)
(* (head first).  refs are the objects a native's payload holds: the ones  *)
(* its protectFromGC callback passes to Tiny_ProtectFromGC.                *)
(***************************************************************************)
IsObject(val) == val.type = "STRING" \/ val.type = "NATIVE"

\* NewObject that links the object and does not count it
NewObject_NoCount(t, type) ==
    [t EXCEPT !.heap = Append(@, [type |-> type, marked |-> 0, string |-> 0, addr |-> 0,
                                  refs |-> {}, protectFromGC |-> FALSE,
                                  finalize |-> FALSE, freed |-> FALSE]),
              !.gcHead = <<Len(t.heap) + 1>> \o @]

\* NewObject: allocate, link at the head, count
NewObject(t, type) ==
    [t EXCEPT !.heap = Append(@, [type |-> type, marked |-> 0, string |-> 0, addr |-> 0,
                                  refs |-> {}, protectFromGC |-> FALSE,
                                  finalize |-> FALSE, freed |-> FALSE]),
              !.gcHead = <<Len(t.heap) + 1>> \o @,
              !.numObjects = @ + 1]

\* Tiny_NewString: the value of a new owned string with the given content
Tiny_NewString(t, string) ==
    LET t1 == NewObject(t, "STRING")
        obj == Len(t1.heap)
    IN  [t1 EXCEPT !.heap[obj].string = string]

\* Tiny_NewNative: asserts the thread is alive (pc >= 0), then allocates
Tiny_NewNative(t, ptr, refs, prop) ==
    IF t.pc < 0 THEN Fatal(t, "exit")
    ELSE LET t1 == NewObject(t, "NATIVE")
             obj == Len(t1.heap)
         IN  [t1 EXCEPT !.heap[obj].addr = ptr,
                        !.heap[obj].refs = refs,
                        !.heap[obj].protectFromGC = prop.protectFromGC,
                        !.heap[obj].finalize = prop.finalize]

\* the value that refers to heap object obj
ObjectValue(t, obj) == Tiny_Value(t.heap[obj].type, obj)

\* DeleteObject that frees a native without calling its finalize callback
DeleteObject_NoFinalize(t, obj) ==
    [t EXCEPT !.heap[obj].freed = TRUE, !.deleted = Append(@, obj)]

\* DeleteObject: free the object; a native's finalize callback runs first
DeleteObject(t, obj) ==
    [t EXCEPT !.heap[obj].freed = TRUE,
              !.deleted = Append(@, obj),
              !.finalized = IF t.heap[obj].type = "NATIVE" /\ t.heap[obj].finalize
                            THEN Append(@, obj) ELSE @]

RECURSIVE Tiny_ProtectFromGC(_, _, _)
RECURSIVE ProtectRefs(_, _, _)

\* a native's protectFromGC callback: protect every object of the payload
ProtectRefs(t, refs, depth) ==
    IF refs = {} \/ t.status # "ok" THEN t
    ELSE LET r == CHOOSE x \in refs : \A y \in refs : x <= y
         IN  ProtectRefs(Tiny_ProtectFromGC(t, ObjectValue(t, r), depth),
                         refs \ {r}, depth)

\* Tiny_ProtectFromGC that sets the mark before it calls the native's callback
Tiny_ProtectFromGC_MarkFirst(t, value, depth) ==
    IF t.status # "ok" \/ ~IsObject(value) THEN t
    ELSE IF depth > Len(t.heap) THEN Fatal(t, "hung")
    ELSE LET obj == value.val
         IN  IF t.heap[obj].freed THEN Fatal(t, "ub")
             ELSE IF t.heap[obj].marked = 1 THEN t
             ELSE IF t.heap[obj].type = "NATIVE" /\ t.heap[obj].protectFromGC
             THEN ProtectRefs([t EXCEPT !.heap[obj].marked = 1], t.heap[obj].refs, depth + 1)
             ELSE [t EXCEPT !.heap[obj].marked = 1]

\* Tiny_ProtectFromGC: mark the object; a native's callback runs before the
\* mark is set.  depth counts the nested calls: more than there are objects
\* means the recursion never ends.
Tiny_ProtectFromGC(t, value, depth) ==
    IF t.status # "ok" \/ ~IsObject(value) THEN t
    ELSE IF depth > Len(t.heap) THEN Fatal(t, "hung")
    ELSE LET obj == value.val
         IN  IF t.heap[obj].freed THEN Fatal(t, "ub")     \* reads freed memory
             ELSE IF t.heap[obj].marked = 1 THEN t
             ELSE LET t1 == IF t.heap[obj].type = "NATIVE" /\ t.heap[obj].protectFromGC
                            THEN ProtectRefs(t, t.heap[obj].refs, depth + 1)
                            ELSE t
                  IN  IF t1.status # "ok" THEN t1
                      ELSE [t1 EXCEPT !.heap[obj].marked = 1]

RECURSIVE ProtectValues(_, _, _)
\* Tiny_ProtectFromGC on values[1], values[2], ... values[n]
ProtectValues(t, values, i) ==
    IF i > Len(values) THEN t
    ELSE ProtectValues(Tiny_ProtectFromGC(t, values[i], 0), values, i + 1)

\* the globals MarkAll reads: state->numGlobalVars of them
MarkedGlobals(t) ==
    IF state.numGlobalVars <= Len(t.globalVars)
    THEN SubSeq(t.globalVars, 1, state.numGlobalVars)
    ELSE t.globalVars

\* MarkAll that does not protect the return register
MarkAll_NoRetVal(t) ==
    LET t2 == ProtectValues(t, SubSeq(t.stack, 1, t.sp), 1)
        t3 == ProtectValues(t2, MarkedGlobals(t), 1)
    IN  IF state.numGlobalVars > Len(t.globalVars) THEN Fatal(t3, "ub") ELSE t3

\* MarkAll: the return register, stack[0 .. sp), every global
MarkAll(t) ==
    LET t1 == Tiny_ProtectFromGC(t, t.retVal, 0)
        t2 == ProtectValues(t1, SubSeq(t.stack, 1, t.sp), 1)
        t3 == ProtectValues(t2, MarkedGlobals(t), 1)
    IN  IF state.numGlobalVars > Len(t.globalVars) THEN Fatal(t3, "ub") ELSE t3

RECURSIVE SweepFrom_KeepMarks(_, _, _)
\* Sweep's loop that leaves the mark of a surviving object set
SweepFrom_KeepMarks(t, list, i) ==
    IF i > Len(list) THEN t
    ELSE LET obj == list[i]
         IN  IF t.heap[obj].marked = 0
             THEN SweepFrom_KeepMarks(
                        DeleteObject([t EXCEPT !.numObjects = @ - 1,
                                               !.gcHead = SelectSeq(@, LAMBDA x : x # obj)],
                                     obj),
                        list, i + 1)
             ELSE SweepFrom_KeepMarks(t, list, i + 1)

RECURSIVE SweepFrom(_, _, _)
\* Sweep's loop at position i of the list as it was; kept is the list so far
SweepFrom(t, list, i) ==
    IF i > Len(list) THEN t
    ELSE LET obj == list[i]
         IN  IF t.heap[obj].marked = 0
             THEN SweepFrom(DeleteObject([t EXCEPT !.numObjects = @ - 1,
                                                   !.gcHead = SelectSeq(@, LAMBDA x : x # obj)],
                                         obj),
                            list, i + 1)
             ELSE SweepFrom([t EXCEPT !.heap[obj].marked = 0], list, i + 1)

\* Sweep: delete the unmarked objects in list order, clear the other marks
Sweep(t) == SweepFrom(t, t.gcHead, 1)

\* GarbageCollect: mark, sweep, set the next threshold
GarbageCollect(t) ==
    LET t1 == MarkAll(t)
    IN  IF t1.status # "ok" THEN t1
        ELSE LET t2 == Sweep(t1)
             IN  [t2 EXCEPT !.maxNumObjects = t2.numObjects * 2,
                            !.collections = @ + 1]

(***************************************************************************)
(* The value stack and the indirection stack.                              *)
(***************************************************************************)
\* DoPush with "sp > MAX_STACK" for "sp >= MAX_STACK"
DoPush_OffByOne(t, value) ==
    IF t.status # "ok" THEN t
    ELSE IF t.sp > MAX_STACK THEN Fatal(t, "exit")
    ELSE [t EXCEPT !.stack = [i \in 1..TINY_THREAD_STACK_SIZE |->
                                IF i = t.sp + 1 THEN value ELSE @[i]],
                   !.sp = t.sp + 1]

\* DoPush: fatal at capacity, else store and count
DoPush(t, value) ==
    IF t.status # "ok" THEN t
    ELSE IF t.sp >= MAX_STACK THEN Fatal(t, "exit")
    ELSE [t EXCEPT !.stack[t.sp + 1] = value, !.sp = t.sp + 1]

\* DoPop: fatal when empty, else uncount; the popped value is Top of before
DoPop(t) ==
    IF t.status # "ok" THEN t
    ELSE IF t.sp <= 0 THEN Fatal(t, "exit")
    ELSE [t EXCEPT !.sp = t.sp - 1]

\* stack[sp - 1], the value DoPop returns
Top(t) == IF t.sp > 0 /\ t.sp <= Len(t.stack) THEN t.stack[t.sp] ELSE Tiny_Null

\* DoPushIndir that pushes the frame pointer before the argument count
DoPushIndir_FpFirst(t, nargs) ==
    IF t.status # "ok" THEN t
    ELSE IF t.indirStackSize + 3 > TINY_THREAD_INDIR_SIZE THEN Fatal(t, "exit")
    ELSE [t EXCEPT !.indirStack[t.indirStackSize + 1] = t.fp,
                   !.indirStack[t.indirStackSize + 2] = nargs,
                   !.indirStack[t.indirStackSize + 3] = t.pc,
                   !.indirStackSize = @ + 3,
                   !.fp = t.sp]

\* DoPushIndir: push (nargs, fp, pc) and open the frame at sp
DoPushIndir(t, nargs) ==
    IF t.status # "ok" THEN t
    ELSE IF t.indirStackSize + 3 > TINY_THREAD_INDIR_SIZE THEN Fatal(t, "exit")
    ELSE [t EXCEPT !.indirStack[t.indirStackSize + 1] = nargs,
                   !.indirStack[t.indirStackSize + 2] = t.fp,
                   !.indirStack[t.indirStackSize + 3] = t.pc,
                   !.indirStackSize = @ + 3,
                   !.fp = t.sp]

\* DoPopIndir without "thread->sp -= nargs": the arguments stay on the stack
DoPopIndir_KeepArgs(t) ==
    IF t.status # "ok" THEN t
    ELSE IF t.indirStackSize < 3 THEN Fatal(t, "exit")
    ELSE [t EXCEPT !.indirStackSize = @ - 3,
                   !.sp = t.fp,
                   !.fp = t.indirStack[t.indirStackSize - 1],
                   !.pc = t.indirStack[t.indirStackSize]]

\* DoPopIndir: sp = fp, pop pc, fp and nargs, drop nargs slots
DoPopIndir(t) ==
    IF t.status # "ok" THEN t
    ELSE IF t.indirStackSize < 3 THEN Fatal(t, "exit")
    ELSE LET prevPc == t.indirStack[t.indirStackSize]
             prevFp == t.indirStack[t.indirStackSize - 1]
             nargs == t.indirStack[t.indirStackSize - 2]
         IN  [t EXCEPT !.indirStackSize = @ - 3,
                       !.sp = t.fp - nargs,
                       !.fp = prevFp,
                       !.pc = prevPc]

\* thread->pc += n / thread->pc = pc, unless the process is gone
AdvancePc(t, n) == IF t.status # "ok" THEN t ELSE [t EXCEPT !.pc = @ + n]
SetPc(t, pc) == IF t.status # "ok" THEN t ELSE [t EXCEPT !.pc = pc]

\* ReadInteger at byte offset pc of the program (the caller advances pc)
ReadInteger(pc) ==
    IF pc + 4 <= Len(state.program)
    THEN BytesInt(SubSeq(state.program, pc + 1, pc + 4))
    ELSE 0

\* ExpectBool asserts the tag
ExpectBool(t, value) == IF value.type = "BOOL" THEN t ELSE Fatal(t, "exit")

\* a slot index the C code uses without a check: outside the array is UB
InStack(i) == i >= 0 /\ i < TINY_THREAD_STACK_SIZE

\* Tiny_ToString: the content of a string value (0 stands for NULL)
Tiny_ToString(t, value) ==
    IF value.type = "CONST_STRING" THEN state.Strings[value.val + 1]
    ELSE IF value.type = "STRING" THEN t.heap[value.val].string
    ELSE 0

\* (int)a % (int)b as C computes it: the quotient truncates toward zero
CMod(a, b) ==
    LET q == IF (a >= 0) = (b > 0) THEN (IF a >= 0 THEN a ELSE -a) \div (IF b > 0 THEN b ELSE -b)
             ELSE -((IF a >= 0 THEN a ELSE -a) \div (IF b > 0 THEN b ELSE -b))
    IN  a - q * b

RECURSIVE BitOp(_, _, _)
\* a | b (or = TRUE) and a & b (or = FALSE) of non-negative a, b
BitOp(a, b, or) ==
    IF a = 0 /\ b = 0 THEN 0
    ELSE LET bit == IF or THEN (IF a % 2 = 1 \/ b % 2 = 1 THEN 1 ELSE 0)
                    ELSE (IF a % 2 = 1 /\ b % 2 = 1 THEN 1 ELSE 0)
         IN  bit + 2 * BitOp(a \div 2, b \div 2, or)

\* the operators of BIN_OP, BIN_OP_INT and REL_OP on two numbers
Arith(op, a, b) ==
    CASE op = OP_ADD -> Tiny_NewNumber(a + b)
      [] op = OP_SUB -> Tiny_NewNumber(a - b)
      [] op = OP_MUL -> Tiny_NewNumber(a * b)
      [] op = OP_DIV -> Tiny_NewNumber(a \div b)
      [] op = OP_MOD -> Tiny_NewNumber(CMod(a, b))
      [] op = OP_OR -> Tiny_NewNumber(BitOp(a, b, TRUE))
      [] op = OP_AND -> Tiny_NewNumber(BitOp(a, b, FALSE))
      [] op = OP_LT -> Tiny_NewBool(a < b)
      [] op = OP_LTE -> Tiny_NewBool(a <= b)
      [] op = OP_GT -> Tiny_NewBool(a > b)
      [] op = OP_GTE -> Tiny_NewBool(a >= b)

\* numbers are doubles in C and integers here: the cases where the two differ,
\* or where C reads the union through the wrong member, are not computed
ArithDefined(op, v1, v2) ==
    /\ v1.type = "NUM" /\ v2.type = "NUM"
    /\ op = OP_DIV => (v2.val # 0 /\ v1.val % v2.val = 0 /\ v1.val >= 0 /\ v2.val > 0)
    /\ op = OP_MOD => v2.val # 0
    /\ op \in {OP_OR, OP_AND} => (v1.val >= 0 /\ v2.val >= 0)

\* the arithmetic and relational instructions: pop val2, pop val1, push, ++pc
ExecuteBinary(t, op) ==
    LET val2 == Top(t)
        t1 == DoPop(t)
        val1 == Top(t1)
        t2 == DoPop(t1)
    IN  IF t2.status # "ok" THEN t2
        ELSE IF ~ArithDefined(op, val1, val2) THEN Fatal(t2, "ub")
        ELSE AdvancePc(DoPush(t2, Arith(op, val1.val, val2.val)), 1)

\* the comparison without the const-string / owned-string exception
ValuesEqual_SameTag(t, a, b) ==
    IF a.type # b.type THEN FALSE
    ELSE CASE a.type = "NULL" -> TRUE
           [] a.type = "BOOL" -> a.val = b.val
           [] a.type = "NUM" -> a.val = b.val
           [] a.type = "STRING" -> t.heap[a.val].string = Tiny_ToString(t, b)
           [] a.type = "CONST_STRING" ->
                IF a.val = b.val THEN TRUE
                ELSE state.Strings[a.val + 1] = Tiny_ToString(t, b)
           [] a.type = "NATIVE" -> t.heap[a.val].addr = t.heap[b.val].addr
           [] a.type = "LIGHT_NATIVE" -> a.val = b.val

\* the comparison OP_EQU makes of a and b
ValuesEqual(t, a, b) ==
    LET bothStrings == \/ (a.type = "CONST_STRING" /\ b.type = "STRING")
                       \/ (a.type = "STRING" /\ b.type = "CONST_STRING")
    IN  IF a.type # b.type /\ ~bothStrings THEN FALSE
        ELSE CASE a.type = "NULL" -> TRUE
               [] a.type = "BOOL" -> a.val = b.val
               [] a.type = "NUM" -> a.val = b.val
               [] a.type = "STRING" -> t.heap[a.val].string = Tiny_ToString(t, b)
               [] a.type = "CONST_STRING" ->
                    IF b.type = "CONST_STRING" /\ a.val = b.val THEN TRUE
                    ELSE state.Strings[a.val + 1] = Tiny_ToString(t, b)
               [] a.type = "NATIVE" -> t.heap[a.val].addr = t.heap[b.val].addr
               [] a.type = "LIGHT_NATIVE" -> a.val = b.val

(***************************************************************************)
(* The host's foreign functions.  The State binds these callees; each is   *)
(* host code written against tiny.h:                                       *)
(*   mkstr()      returns Tiny_NewString(thread, "tmp")                    *)
(*   mknat(a..)   returns a Tiny_NewNative whose payload holds its object  *)
(*                arguments; the prop has protectFromGC and finalize       *)
(*   protect(v)   calls Tiny_ProtectFromGC(v), returns null                *)
(*   attach(n, v) stores v in the payload of native n, returns null        *)
(*   sub(a, b)    returns the number a - b                                 *)
(*   apply(f, a..) returns Tiny_CallFunction(thread, f, a.., count - 1)    *)
(***************************************************************************)
\* the content of the string mkstr makes, and of the line OP_READ reads
HostStrings == [tmp |-> 100, stdin |-> 101, gone |-> 102]

\* the payload address and the prop mknat gives its natives
NativeAddr(obj) == 1000 + obj
NativeProp == [protectFromGC |-> TRUE, finalize |-> TRUE]

ObjectsOf(values) == {values[i].val : i \in {j \in 1..Len(values) : IsObject(values[j])}}

\* a callee that returns without re-entering the VM: the thread it leaves and
\* the value it returns
ForeignCallee(t, callee, args) ==
    CASE callee = "mkstr" ->
            LET t1 == Tiny_NewString(t, HostStrings.tmp)
            IN  [t |-> t1, ret |-> Tiny_Value("STRING", Len(t1.heap))]
      [] callee = "mknat" ->
            LET t1 == Tiny_NewNative(t, NativeAddr(Len(t.heap) + 1), ObjectsOf(args),
                                     NativeProp)
            IN  [t |-> t1, ret |-> Tiny_Value("NATIVE", Len(t1.heap))]
      [] callee = "protect" ->
            [t |-> IF Len(args) >= 1 THEN Tiny_ProtectFromGC(t, args[1], 0) ELSE t,
             ret |-> Tiny_Null]
      [] callee = "attach" ->
            [t |-> IF Len(args) >= 2 /\ args[1].type = "NATIVE" /\ IsObject(args[2])
                   THEN [t EXCEPT !.heap[args[1].val].refs = @ \cup {args[2].val}]
                   ELSE t,
             ret |-> Tiny_Null]
      [] callee = "sub" ->
            [t |-> t,
             ret |-> IF Len(args) >= 2 /\ args[1].type = "NUM" /\ args[2].type = "NUM"
                     THEN Tiny_NewNumber(args[1].val - args[2].val) ELSE Tiny_Null]
      [] OTHER -> [t |-> t, ret |-> Tiny_Null]

\* the callees that call Tiny_CallFunction
Reentrant(callee) == callee = "apply"

(***************************************************************************)
(* Tiny_CallFunction, entered.  The C activation is pushed on cstack with  *)
(* the four registers it saved; the loop and the return are steps of the   *)
(* model (NestedCycle, CallFunctionReturn).                                *)
(***************************************************************************)
\* AllocGlobals without the test of thread->globalVars
AllocGlobals_Always(t) ==
    [t EXCEPT !.globalsAllocated = TRUE,
              !.globalVars = [i \in 1..state.numGlobalVars |-> Tiny_Null]]

\* AllocGlobals: allocate and zero the globals unless they are allocated
AllocGlobals(t) ==
    IF t.globalsAllocated THEN t
    ELSE [t EXCEPT !.globalsAllocated = TRUE,
                   !.globalVars = [i \in 1..state.numGlobalVars |-> Tiny_Null]]

RECURSIVE PushArgs_Reversed(_, _, _)
\* the loop pushing args[count - 1] first
PushArgs_Reversed(t, args, i) ==
    IF i > Len(args) THEN t
    ELSE PushArgs_Reversed(DoPush(t, args[Len(args) + 1 - i]), args, i + 1)

RECURSIVE PushArgs(_, _, _)
\* the loop DoPush(thread, args[i])
PushArgs(t, args, i) ==
    IF i > Len(args) THEN t ELSE PushArgs(DoPush(t, args[i]), args, i + 1)

\* state->functionPcs[index]: reading outside the table is UB
FunctionPc(index) ==
    IF index >= 0 /\ index < Len(state.functionPcs) THEN state.functionPcs[index + 1] ELSE -2

Tiny_CallFunctionEnter(t, functionIndex, args) ==
    IF functionIndex < 0 THEN Fatal(t, "exit")
    ELSE IF FunctionPc(functionIndex) < 0 THEN Fatal(t, "ub")
    ELSE LET saved == [kind |-> "Tiny_CallFunction", pc |-> t.pc, fp |-> t.fp,
                       sp |-> t.sp, indirStackSize |-> t.indirStackSize]
             t1 == PushArgs(AllocGlobals(t), args, 1)
             t2 == DoPushIndir(SetPc(t1, FunctionPc(functionIndex)), Len(args))
         IN  IF t2.status # "ok" THEN t2
             ELSE [t2 EXCEPT !.cstack = Append(@, saved)]

\* the end of Tiny_CallFunction with "thread->sp = fp" for "thread->sp = sp"
Tiny_CallFunctionLeave_SpFromFp(t) ==
    LET saved == t.cstack[Len(t.cstack)]
    IN  [t EXCEPT !.pc = saved.pc, !.fp = saved.fp, !.sp = saved.fp,
                  !.indirStackSize = saved.indirStackSize,
                  !.cstack = SubSeq(@, 1, Len(@) - 1)]

\* the end of Tiny_CallFunction that also resets the return register
Tiny_CallFunctionLeave_ClearRetVal(t) ==
    LET saved == t.cstack[Len(t.cstack)]
    IN  [t EXCEPT !.pc = saved.pc, !.fp = saved.fp, !.sp = saved.sp,
                  !.indirStackSize = saved.indirStackSize,
                  !.retVal = Tiny_Null,
                  !.cstack = SubSeq(@, 1, Len(@) - 1)]

\* the end of Tiny_CallFunction: restore the four registers, leave the
\* activation; the value returned is thread->retVal
Tiny_CallFunctionLeave(t) ==
    LET saved == t.cstack[Len(t.cstack)]
    IN  [t EXCEPT !.pc = saved.pc, !.fp = saved.fp, !.sp = saved.sp,
                  !.indirStackSize = saved.indirStackSize,
                  !.cstack = SubSeq(@, 1, Len(@) - 1)]

(***************************************************************************)
(* ExecuteCycle.                                                           *)
(***************************************************************************)
\* OP_HALT that leaves pc where it is
ExecuteHalt_Stay(t) == t

\* OP_HALT: thread->pc = -1
ExecuteHalt(t) == SetPc(t, -1)

\* OP_CALLF: the callee runs on the slice stack[prevSize .. sp)
ExecuteCallF(t) ==
    LET nargs == ReadInteger(t.pc + 1)
        fIdx == ReadInteger(t.pc + 5)
        t0 == AdvancePc(t, 9)
        prevSize == t0.sp - nargs
    IN  IF ~(fIdx >= 0 /\ fIdx < Len(state.foreignFunctions)) THEN Fatal(t0, "ub")
        ELSE IF ~(prevSize >= 0 /\ nargs >= 0) THEN Fatal(t0, "ub")
        ELSE LET callee == state.foreignFunctions[fIdx + 1]
                 args == SubSeq(t0.stack, prevSize + 1, prevSize + nargs)
                 \* what the callee is handed: (thread, &stack[prevSize], nargs)
                 t1 == [t0 EXCEPT !.called = [callee |-> callee, args |-> args,
                                              count |-> nargs]]
             IN  IF Reentrant(callee)
                 THEN IF nargs >= 1 /\ args[1].type = "NUM"
                      THEN Tiny_CallFunctionEnter(
                              [t1 EXCEPT !.cstack =
                                  Append(@, [kind |-> "OP_CALLF", prevSize |-> prevSize])],
                              args[1].val, SubSeq(args, 2, nargs))
                      ELSE [t1 EXCEPT !.retVal = Tiny_Null, !.sp = prevSize]
                 ELSE LET r == ForeignCallee(t1, callee, args)
                      IN  IF r.t.status # "ok" THEN r.t
                          ELSE [r.t EXCEPT !.retVal = r.ret, !.sp = prevSize]

\* the switch of ExecuteCycle on program[pc]
ExecuteInstruction(t) ==
    LET op == state.program[t.pc + 1]
    IN  CASE op = OP_PUSH_NULL -> DoPush(AdvancePc(t, 1), Tiny_Null)
          [] op = OP_PUSH_TRUE -> DoPush(AdvancePc(t, 1), Tiny_NewBool(TRUE))
          [] op = OP_PUSH_FALSE -> DoPush(AdvancePc(t, 1), Tiny_NewBool(FALSE))
          [] op = OP_PUSH_NUMBER ->
                LET numberIndex == ReadInteger(t.pc + 1)
                IN  IF numberIndex >= 0 /\ numberIndex < Len(state.Numbers)
                    THEN DoPush(AdvancePc(t, 5), Tiny_NewNumber(state.Numbers[numberIndex + 1]))
                    ELSE Fatal(AdvancePc(t, 5), "ub")
          [] op = OP_PUSH_STRING ->
                DoPush(AdvancePc(t, 5), Tiny_NewConstString(ReadInteger(t.pc + 1)))
          [] op = OP_POP -> AdvancePc(DoPop(t), 1)
          [] op \in {OP_ADD, OP_SUB, OP_MUL, OP_DIV, OP_MOD, OP_OR, OP_AND,
                     OP_LT, OP_LTE, OP_GT, OP_GTE} -> ExecuteBinary(t, op)
          [] op = OP_EQU ->
                LET t0 == AdvancePc(t, 1)
                    b == Top(t0)
                    t1 == DoPop(t0)
                    a == Top(t1)
                    t2 == DoPop(t1)
                IN  IF t2.status # "ok" THEN t2
                    ELSE DoPush(t2, Tiny_NewBool(ValuesEqual(t2, a, b)))
          [] op = OP_LOG_NOT ->
                LET t0 == AdvancePc(t, 1)
                    a == Top(t0)
                    t1 == ExpectBool(DoPop(t0), a)
                IN  DoPush(t1, Tiny_NewBool(a.val = 0))
          [] op \in {OP_LOG_AND, OP_LOG_OR} ->
                LET t0 == AdvancePc(t, 1)
                    b == Top(t0)
                    t1 == DoPop(t0)
                    a == Top(t1)
                    t2 == ExpectBool(DoPop(t1), a)
                    \* && and || evaluate ExpectBool(b) only when a does not decide
                    t3 == IF (op = OP_LOG_AND) = (a.val = 1) THEN ExpectBool(t2, b) ELSE t2
                IN  DoPush(t3, Tiny_NewBool(IF op = OP_LOG_AND
                                            THEN a.val = 1 /\ b.val = 1
                                            ELSE a.val = 1 \/ b.val = 1))
          [] op = OP_PRINT ->
                LET val == Top(t)
                    t1 == DoPop(t)
                IN  IF t1.status = "ok" /\ val.type \notin {"NUM", "STRING", "NATIVE"}
                    THEN Fatal(t1, "ub")        \* val.obj->type of a value with no object
                    ELSE AdvancePc(t1, 1)
          [] op = OP_SET ->
                LET varIdx == ReadInteger(t.pc + 1)
                    t0 == AdvancePc(t, 5)
                    val == Top(t0)
                    t1 == DoPop(t0)
                IN  IF t1.status # "ok" THEN t1
                    ELSE IF varIdx >= 0 /\ varIdx < Len(t1.globalVars)
                    THEN [t1 EXCEPT !.globalVars[varIdx + 1] = val]
                    ELSE Fatal(t1, "ub")
          [] op = OP_GET ->
                LET varIdx == ReadInteger(t.pc + 1)
                IN  IF varIdx >= 0 /\ varIdx < Len(t.globalVars)
                    THEN DoPush(AdvancePc(t, 5), t.globalVars[varIdx + 1])
                    ELSE Fatal(AdvancePc(t, 5), "ub")
          [] op = OP_READ ->
                LET t1 == Tiny_NewString(t, HostStrings.stdin)
                IN  AdvancePc(DoPush(t1, Tiny_Value("STRING", Len(t1.heap))), 1)
          [] op = OP_GOTO -> SetPc(t, ReadInteger(t.pc + 1))
          [] op = OP_GOTOZ ->
                LET newPc == ReadInteger(t.pc + 1)
                    t0 == AdvancePc(t, 5)
                    val == Top(t0)
                    t1 == ExpectBool(DoPop(t0), val)
                IN  IF val.val = 0 THEN SetPc(t1, newPc) ELSE t1
          [] op = OP_CALL ->
                LET nargs == ReadInteger(t.pc + 1)
                    pcIdx == ReadInteger(t.pc + 5)
                    t1 == DoPushIndir(AdvancePc(t, 9), nargs)
                IN  IF FunctionPc(pcIdx) < 0 THEN Fatal(t1, "ub")
                    ELSE SetPc(t1, FunctionPc(pcIdx))
          [] op = OP_RETURN -> DoPopIndir([t EXCEPT !.retVal = Tiny_Null])
          [] op = OP_RETURN_VALUE ->
                LET val == Top(t)
                    t1 == DoPop(t)
                IN  IF t1.status # "ok" THEN t1
                    ELSE DoPopIndir([t1 EXCEPT !.retVal = val])
          [] op = OP_CALLF -> ExecuteCallF(t)
          [] op = OP_GETLOCAL ->
                LET localIdx == ReadInteger(t.pc + 1)
                    t0 == AdvancePc(t, 5)
                IN  IF InStack(t.fp + localIdx) THEN DoPush(t0, t.stack[t.fp + localIdx + 1])
                    ELSE Fatal(t0, "ub")
          [] op = OP_SETLOCAL ->
                LET localIdx == ReadInteger(t.pc + 1)
                    t0 == AdvancePc(t, 5)
                    val == Top(t0)
                    t1 == DoPop(t0)
                IN  IF t1.status # "ok" THEN t1
                    ELSE IF InStack(t.fp + localIdx)
                    THEN [t1 EXCEPT !.stack[t.fp + localIdx + 1] = val]
                    ELSE Fatal(t1, "ub")
          [] op = OP_GET_RETVAL -> DoPush(AdvancePc(t, 1), t.retVal)
          [] op = OP_HALT -> ExecuteHalt(t)
          [] OTHER -> t

\* the end of ExecuteCycle with > for >=
CollectIfDue_Strict(t) ==
    IF t.status = "ok" /\ t.numObjects > t.maxNumObjects THEN GarbageCollect(t) ELSE t

\* the end of ExecuteCycle: collect when numObjects >= maxNumObjects
CollectIfDue(t) ==
    IF t.status = "ok" /\ t.numObjects >= t.maxNumObjects THEN GarbageCollect(t) ELSE t

\* TRUE while an instruction's foreign callee is still running (it re-entered
\* the VM): the cycle ends when the callee returns
Suspended(t, t1) == Len(t1.cstack) > Len(t.cstack)

\* the instruction of a cycle: reading the program outside its bytes is UB
ExecuteStep(t) ==
    IF t.pc >= Len(state.program) THEN Fatal(t, "ub") ELSE ExecuteInstruction(t)

\* ExecuteCycle with "pc <= 0" for "pc < 0"
ExecuteCycle_DoneAtZero(t) ==
    IF t.pc <= 0 THEN [thread |-> t, result |-> FALSE]
    ELSE LET t1 == ExecuteStep(t)
         IN  [thread |-> IF Suspended(t, t1) THEN t1 ELSE CollectIfDue(t1),
              result |-> TRUE]

\* ExecuteCycle: false when pc < 0, else one instruction, the collection, true
ExecuteCycle(t) ==
    IF t.pc < 0 THEN [thread |-> t, result |-> FALSE]
    ELSE LET t1 == ExecuteStep(t)
         IN  [thread |-> IF Suspended(t, t1) THEN t1 ELSE CollectIfDue(t1),
              result |-> TRUE]

\* the rest of OP_CALLF without "thread->sp = prevSize"
ExecuteCallFReturn_KeepArgs(t, ret) ==
    CollectIfDue([t EXCEPT !.retVal = ret, !.cstack = SubSeq(@, 1, Len(@) - 1)])

\* the rest of OP_CALLF once a re-entrant callee has returned ret
ExecuteCallFReturn(t, ret) ==
    LET frame == t.cstack[Len(t.cstack)]
    IN  CollectIfDue([t EXCEPT !.retVal = ret, !.sp = frame.prevSize,
                               !.cstack = SubSeq(@, 1, Len(@) - 1)])

(***************************************************************************)
(* The programs the model runs: for each, the Tiny source and what         *)
(* ParseProgram makes of it (statements, symbols, counters, pools).        *)
(***************************************************************************)
Num(i) == [type |-> "NUM", number |-> i]
Id(sym) == [type |-> "ID", sym |-> sym]
Call(name, args) == [type |-> "CALL", calleeName |-> name, args |-> args]
Bin(op, lhs, rhs) == [type |-> "BINARY", op |-> op, lhs |-> lhs, rhs |-> rhs]
Block(stmts) == [type |-> "BLOCK", block |-> stmts]
Proc(decl, body) == [type |-> "PROC", decl |-> decl, body |-> body]
While(cond, body) == [type |-> "WHILE", cond |-> cond, body |-> body]
Ret(exp) == [type |-> "RETURN", retExpr |-> exp]

GlobalSym(name, index) == [type |-> "GLOBAL", name |-> name, index |-> index]
LocalSym(name, index) == [type |-> "LOCAL", name |-> name, index |-> index]
FuncSym(name, index, nargs, nlocals) ==
    [type |-> "FUNCTION", name |-> name, index |-> index, nargs |-> nargs,
     nlocals |-> nlocals]
ForeignSym(name, index) ==
    [type |-> "FOREIGN_FUNCTION", name |-> name, index |-> index, callee |-> name]

\* Tiny_BindFunction for each callee of the host, in this order
HostBindings ==
    << ForeignSym("mkstr", 0), ForeignSym("mknat", 1), ForeignSym("protect", 2),
       ForeignSym("attach", 3), ForeignSym("sub", 4), ForeignSym("apply", 5) >>

\* total := 0
\* func add1(a) { x := a + 1  return x }
\* func twice(a) { return add1(add1(a)) }
\* func note(a, b) { total = total + a - b }
\* y := twice(1)
\* note(y, 1)
\* z := sub(y, 1)
ProgCalls ==
    LET a1 == LocalSym("a", -1)
        x == LocalSym("x", 0)
        a2 == LocalSym("a", -2)
        b2 == LocalSym("b", -1)
        total == GlobalSym("total", 0)
        y == GlobalSym("y", 1)
        z == GlobalSym("z", 2)
        add1 == FuncSym("add1", 0, 1, 1)
        twice == FuncSym("twice", 1, 1, 0)
        note == FuncSym("note", 2, 2, 0)
    IN  [name |-> "calls", prog |-> <<
            Bin(":=", Id(total), Num(0)),
            Proc(add1, Block(<< Bin(":=", Id(x), Bin("+", Id(a1), Num(1))), Ret(Id(x)) >>)),
            Proc(twice, Block(<< Ret(Call("add1", << Call("add1", << Id(a1) >>) >>)) >>)),
            Proc(note, Block(<< Bin("=", Id(total),
                                    Bin("-", Bin("+", Id(total), Id(a2)), Id(b2))) >>)),
            Bin(":=", Id(y), Call("twice", << Num(1) >>)),
            Call("note", << Id(y), Num(1) >>),
            Bin(":=", Id(z), Call("sub", << Id(y), Num(1) >>)) >>,
         globalSymbols |-> HostBindings \o << total, add1, twice, note, y, z >>,
         numGlobalVars |-> 3, numFunctions |-> 3, numForeignFunctions |-> 6,
         Numbers |-> << 0, 1 >>, Strings |-> << >>,
         hostCalls |-> { [f |-> 0, args |-> << Tiny_NewNumber(5) >>],
                         [f |-> 2, args |-> << Tiny_NewNumber(4), Tiny_NewNumber(1) >>] }]

\* func deep(n) { a := n  b := n  return deep(n + 1) }
\* r := deep(0)
ProgDeep ==
    LET n == LocalSym("n", -1)
        a == LocalSym("a", 0)
        b == LocalSym("b", 1)
        r == GlobalSym("r", 0)
        deep == FuncSym("deep", 0, 1, 2)
    IN  [name |-> "deep", prog |-> <<
            Proc(deep, Block(<< Bin(":=", Id(a), Id(n)), Bin(":=", Id(b), Id(n)),
                                Ret(Call("deep", << Bin("+", Id(n), Num(0)) >>)) >>)),
            Bin(":=", Id(r), Call("deep", << Num(1) >>)) >>,
         globalSymbols |-> HostBindings \o << deep, r >>,
         numGlobalVars |-> 1, numFunctions |-> 1, numForeignFunctions |-> 6,
         Numbers |-> << 1, 0 >>, Strings |-> << >>,
         hostCalls |-> {}]

\* func alloc() { return mkstr() }
\* keep := mkstr()
\* hold := mkstr()
\* n := mknat(keep)
\* keep = 0
\* tmp := 0
\* i := 0
\* while i < 5 { tmp = mkstr()  i += 1 }
\* while i < 10 { tmp = apply(0)  i += 1 }
ProgGc ==
    LET keep == GlobalSym("keep", 0)
        hold == GlobalSym("hold", 1)
        n == GlobalSym("n", 2)
        tmp == GlobalSym("tmp", 3)
        i == GlobalSym("i", 4)
        alloc == FuncSym("alloc", 0, 0, 0)
    IN  [name |-> "gc", prog |-> <<
            Proc(alloc, Block(<< Ret(Call("mkstr", << >>)) >>)),
            Bin(":=", Id(keep), Call("mkstr", << >>)),
            Bin(":=", Id(hold), Call("mkstr", << >>)),
            Bin(":=", Id(n), Call("mknat", << Id(keep) >>)),
            Bin("=", Id(keep), Num(0)),
            Bin(":=", Id(tmp), Num(0)),
            Bin(":=", Id(i), Num(0)),
            While(Bin("<", Id(i), Num(1)),
                  Block(<< Bin("=", Id(tmp), Call("mkstr", << >>)),
                           Bin("+=", Id(i), Num(2)) >>)),
            While(Bin("<", Id(i), Num(3)),
                  Block(<< Bin("=", Id(tmp), Call("apply", << Num(0) >>)),
                           Bin("+=", Id(i), Num(2)) >>)) >>,
         globalSymbols |-> HostBindings \o << alloc, keep, hold, n, tmp, i >>,
         numGlobalVars |-> 5, numFunctions |-> 1, numForeignFunctions |-> 6,
         Numbers |-> << 0, 5, 1, 10 >>, Strings |-> << >>,
         hostCalls |-> { [f |-> 0, args |-> << Tiny_NewLightNative(7) >>] }]

\* n := mknat()
\* protect(n)
\* s := mkstr()
\* attach(n, s)
\* s = "gone"
\* i := 0
\* while i < 6 { mknat()  i += 1 }
ProgAttach ==
    LET n == GlobalSym("n", 0)
        sg == GlobalSym("s", 1)
        i == GlobalSym("i", 2)
    IN  [name |-> "attach", prog |-> <<
            Bin(":=", Id(n), Call("mknat", << >>)),
            Call("protect", << Id(n) >>),
            Bin(":=", Id(sg), Call("mkstr", << >>)),
            Call("attach", << Id(n), Id(sg) >>),
            Bin("=", Id(sg), [type |-> "STRING", string |-> 0]),
            Bin(":=", Id(i), Num(0)),
            While(Bin("<", Id(i), Num(1)),
                  Block(<< Call("mknat", << >>), Bin("+=", Id(i), Num(2)) >>)) >>,
         globalSymbols |-> HostBindings \o << n, sg, i >>,
         numGlobalVars |-> 3, numFunctions |-> 0, numForeignFunctions |-> 6,
         Numbers |-> << 0, 6, 1 >>, Strings |-> << HostStrings.gone >>,
         hostCalls |-> {}]

\* func inc(a) { return a + 1 }
\* func viaHost(a) { return apply(0, a) }
\* r := apply(1, 5)
\* q := viaHost(r)
ProgReenter ==
    LET a == LocalSym("a", -1)
        r == GlobalSym("r", 0)
        q == GlobalSym("q", 1)
        inc == FuncSym("inc", 0, 1, 0)
        viaHost == FuncSym("viaHost", 1, 1, 0)
    IN  [name |-> "reenter", prog |-> <<
            Proc(inc, Block(<< Ret(Bin("+", Id(a), Num(0))) >>)),
            Proc(viaHost, Block(<< Ret(Call("apply", << Num(1), Id(a) >>)) >>)),
            Bin(":=", Id(r), Call("apply", << Num(0), Num(2) >>)),
            Bin(":=", Id(q), Call("viaHost", << Id(r) >>)) >>,
         globalSymbols |-> HostBindings \o << inc, viaHost, r, q >>,
         numGlobalVars |-> 2, numFunctions |-> 2, numForeignFunctions |-> 6,
         Numbers |-> << 1, 0, 5 >>, Strings |-> << >>,
         hostCalls |-> { [f |-> 1, args |-> << Tiny_NewNumber(7) >>] }]

Programs == << ProgCalls, ProgDeep, ProgGc, ProgAttach, ProgReenter >>

\* the State after Tiny_CreateState, the host's bindings and one compilation
Compiled(parsed) ==
    CompileState(Tiny_CreateState, [Numbers |-> parsed.Numbers, Strings |-> parsed.Strings],
                 parsed)

(***************************************************************************)
(* The thread API.                                                         *)
(***************************************************************************)
NoCallee == [callee |-> "", args |-> << >>, count |-> 0]

\* Tiny_InitThread: an empty heap, threshold 8, no globals, done, empty stacks
Tiny_InitThread ==
    [pc |-> -1, fp |-> 0, sp |-> 0, retVal |-> Tiny_Null,
     stack |-> [i \in 1..TINY_THREAD_STACK_SIZE |-> Tiny_Null],
     indirStack |-> [i \in 1..TINY_THREAD_INDIR_SIZE |-> 0],
     indirStackSize |-> 0,
     globalVars |-> NoGlobals, globalsAllocated |-> FALSE,
     gcHead |-> << >>, numObjects |-> 0, maxNumObjects |-> INIT_GC_THRESH,
     heap |-> << >>, deleted |-> << >>, finalized |-> << >>, collections |-> 0,
     cstack |-> << >>, called |-> NoCallee, status |-> "ok", destroyed |-> FALSE]

\* Tiny_StartThread: allocate the globals if need be, pc = 0
Tiny_StartThread(t) == SetPc(AllocGlobals(t), 0)

RECURSIVE DeleteAll(_, _, _)
\* the loop of Tiny_DestroyThread over the object list
DeleteAll(t, list, i) ==
    IF i > Len(list) THEN t ELSE DeleteAll(DeleteObject(t, list[i]), list, i + 1)

\* Tiny_DestroyThread: pc = -1, delete every listed object, free the globals
Tiny_DestroyThread(t) ==
    [DeleteAll(SetPc(t, -1), t.gcHead, 1) EXCEPT
        !.gcHead = << >>, !.globalVars = NoGlobals, !.destroyed = TRUE]

\* Tiny_IsThreadDone
Tiny_IsThreadDone(t) == t.pc < 0

(***************************************************************************)
(* History.  calls is a shadow of the open activations: one entry per      *)
(* OP_CALL not yet returned ("CALL"), per Tiny_CallFunction not yet        *)
(* returned ("API") and per OP_CALLF whose callee has not yet returned     *)
(* ("CALLF"), each with the registers at its start.  event is the last     *)
(* operation: its kind, the thread before it, the thread at the end of     *)
(* the instruction (where ExecuteCycle decides to collect), the opcode,    *)
(* what ExecuteCycle returned and the entry of calls it closed.            *)
(***************************************************************************)
NoCall == [kind |-> "NONE", pc |-> 0, fp |-> 0, sp |-> 0, indirStackSize |-> 0,
           nargs |-> 0, f |-> 0, args |-> << >>]

OpAt(t) == IF t.pc >= 0 /\ t.pc < Len(state.program) THEN state.program[t.pc + 1] ELSE -1

Event(kind, before, atEnd, result, call) ==
    [kind |-> kind, before |-> before, atEnd |-> atEnd, op |-> OpAt(before),
     result |-> result, call |-> call]

Pop(seq) == SubSeq(seq, 1, Len(seq) - 1)
Last(seq) == seq[Len(seq)]

\* the entry an instruction opens: the registers at the start of OP_CALL or
\* OP_CALLF, and the address just after its operands
CallEntry(kind, t) ==
    LET nargs == ReadInteger(t.pc + 1)
    IN  [kind |-> kind, pc |-> t.pc + 9, fp |-> t.fp, sp |-> t.sp,
         indirStackSize |-> t.indirStackSize, nargs |-> nargs,
         f |-> ReadInteger(t.pc + 5),
         args |-> IF nargs >= 0 /\ nargs <= t.sp
                  THEN SubSeq(t.stack, t.sp - nargs + 1, t.sp) ELSE << >>]

\* the entry of a Tiny_CallFunction: the registers immediately before it
ApiEntry(t, f, args) ==
    [kind |-> "API", pc |-> t.pc, fp |-> t.fp, sp |-> t.sp,
     indirStackSize |-> t.indirStackSize, nargs |-> Len(args), f |-> f, args |-> args]

\* hist after one ExecuteCycle that took the thread from t to r.thread
AfterCycle(kind, t, r) ==
    LET t2 == r.thread
        op == OpAt(t)
        atEnd == IF r.result THEN ExecuteStep(t) ELSE t
        returns == /\ r.result /\ t2.status = "ok"
                   /\ op \in {OP_RETURN, OP_RETURN_VALUE}
                   /\ Len(hist.calls) > 0 /\ Last(hist.calls).kind = "CALL"
        calls == IF ~r.result \/ t2.status # "ok" THEN hist.calls
                 ELSE IF op = OP_CALL THEN Append(hist.calls, CallEntry("CALL", t))
                 ELSE IF op = OP_CALLF /\ Suspended(t, t2)
                    THEN hist.calls \o
                         << CallEntry("CALLF", t),
                            ApiEntry(AdvancePc(t, 9), t2.called.args[1].val,
                                     SubSeq(t2.called.args, 2, t2.called.count)) >>
                 ELSE IF returns THEN Pop(hist.calls)
                 ELSE hist.calls
    IN  [hist EXCEPT !.calls = calls,
                     !.event = Event(kind, t, atEnd, r.result,
                                     IF returns THEN Last(hist.calls) ELSE NoCall)]

(***************************************************************************)
(* The steps: what the host does with one thread, and the steps of the C   *)
(* activations (the loop of Tiny_CallFunction, a foreign callee's return). *)
(***************************************************************************)
RawPrograms ==
    << << OP_PUSH_NULL, OP_POP, OP_POP, OP_HALT >>,
       << OP_PUSH_TRUE, OP_PUSH_TRUE, OP_PUSH_TRUE, OP_PUSH_TRUE, OP_PUSH_TRUE,
          OP_PUSH_TRUE, OP_PUSH_TRUE, OP_PUSH_TRUE, OP_PUSH_TRUE, OP_PUSH_TRUE, OP_HALT >> >>

\* a State whose bytecode the compiler did not produce
RawState(program) ==
    [program |-> program, numGlobalVars |-> 0, numFunctions |-> 0, functionPcs |-> << >>,
     numForeignFunctions |-> 0, foreignFunctions |-> << >>, globalSymbols |-> << >>,
     Numbers |-> << >>, Strings |-> << >>, failed |-> FALSE]

Init ==
    /\ \/ \E p \in 1..Len(Programs) :
            /\ state = Compiled(Programs[p])
            /\ hist = [calls |-> << >>, hostCalls |-> 0, starts |-> 0,
                       source |-> "compiler", program |-> Programs[p].name,
                       choices |-> Programs[p].hostCalls,
                       event |-> Event("Tiny_InitThread", Tiny_InitThread,
                                       Tiny_InitThread, FALSE, NoCall)]
       \/ \E p \in 1..Len(RawPrograms) :
            /\ state = RawState(RawPrograms[p])
            /\ hist = [calls |-> << >>, hostCalls |-> 0, starts |-> 0,
                       source |-> "raw", program |-> "raw", choices |-> {},
                       event |-> Event("Tiny_InitThread", Tiny_InitThread,
                                       Tiny_InitThread, FALSE, NoCall)]
    /\ thread = Tiny_InitThread

\* the host may act: the process runs, the thread exists, no call is open
HostTurn == thread.status = "ok" /\ ~thread.destroyed /\ thread.cstack = << >>

WithinBounds(t) == Len(t.heap) <= MaxObjects

StartThread ==
    /\ HostTurn
    /\ thread.pc < 0
    /\ hist.starts < MaxStarts
    /\ thread' = Tiny_StartThread(thread)
    /\ hist' = [hist EXCEPT !.starts = @ + 1,
                            !.event = Event("Tiny_StartThread", thread, thread', FALSE, NoCall)]
    /\ UNCHANGED state

HostExecuteCycle ==
    /\ HostTurn
    /\ LET r == ExecuteCycle(thread)
       IN  /\ WithinBounds(r.thread)
           /\ thread' = r.thread
           /\ hist' = AfterCycle("Tiny_ExecuteCycle", thread, r)
    /\ UNCHANGED state

HostCallFunction ==
    /\ HostTurn
    /\ hist.hostCalls < MaxHostCalls
    /\ \E c \in hist.choices :
          /\ thread' = Tiny_CallFunctionEnter(thread, c.f, c.args)
          /\ hist' = [hist EXCEPT
                !.hostCalls = @ + 1,
                !.calls = IF thread'.status = "ok"
                          THEN Append(@, ApiEntry(thread, c.f, c.args)) ELSE @,
                !.event = Event("Tiny_CallFunction", thread, thread', FALSE, NoCall)]
    /\ UNCHANGED state

\* inside Tiny_CallFunction
InCallFunction ==
    /\ thread.status = "ok"
    /\ thread.cstack # << >>
    /\ Last(thread.cstack).kind = "Tiny_CallFunction"

\* one turn of the loop: while (indirStackSize > saved) ExecuteCycle(thread)
NestedCycle ==
    /\ InCallFunction
    /\ thread.indirStackSize > Last(thread.cstack).indirStackSize
    /\ LET r == ExecuteCycle(thread)
       IN  /\ WithinBounds(r.thread)
           /\ thread' = r.thread
           /\ hist' = AfterCycle("ExecuteCycle", thread, r)
    /\ UNCHANGED state

\* the loop is over: Tiny_CallFunction restores the registers and returns
CallFunctionReturn ==
    /\ InCallFunction
    /\ ~(thread.indirStackSize > Last(thread.cstack).indirStackSize)
    /\ thread' = Tiny_CallFunctionLeave(thread)
    /\ hist' = [hist EXCEPT !.calls = Pop(@),
                            !.event = Event("Tiny_CallFunction:return", thread, thread',
                                            FALSE, Last(hist.calls))]
    /\ UNCHANGED state

\* the foreign callee that re-entered the VM returns what Tiny_CallFunction
\* returned; OP_CALLF and its cycle finish
ForeignReturn ==
    /\ thread.status = "ok"
    /\ thread.cstack # << >>
    /\ Last(thread.cstack).kind = "OP_CALLF"
    /\ LET ret == thread.retVal
           atEnd == [thread EXCEPT !.retVal = ret,
                                   !.sp = Last(thread.cstack).prevSize,
                                   !.cstack = Pop(@)]
       IN  /\ thread' = ExecuteCallFReturn(thread, ret)
           /\ hist' = [hist EXCEPT !.calls = Pop(@),
                                   !.event = [Event("OP_CALLF:return", thread, atEnd, TRUE,
                                                    Last(hist.calls))
                                              EXCEPT !.op = OP_CALLF]]
    /\ UNCHANGED state

DestroyThread ==
    /\ HostTurn
    /\ thread' = Tiny_DestroyThread(thread)
    /\ hist' = [hist EXCEPT !.event = Event("Tiny_DestroyThread", thread, thread,
                                            FALSE, NoCall)]
    /\ UNCHANGED state

Next ==
    \/ StartThread
    \/ HostExecuteCycle
    \/ HostCallFunction
    \/ NestedCycle
    \/ CallFunctionReturn
    \/ ForeignReturn
    \/ DestroyThread

Spec == Init /\ [][Next]_vars

(***************************************************************************)
(* Properties.                                                             *)
(***************************************************************************)
\* the last operation was an ExecuteCycle (the host's or a nested one), or
\* the end of a cycle whose foreign callee had re-entered the VM
CycleEvent ==
    hist.event.kind \in {"Tiny_ExecuteCycle", "ExecuteCycle", "OP_CALLF:return"}

\* C1: when the RETURN or RETURN_VALUE that matches a CALL nargs,f executes,
\* sp is the CALL's sp less nargs, fp and indirStackSize are the CALL's, pc is
\* the address just after the CALL's operands; RETURN leaves null in the
\* return register, RETURN_VALUE the value that was on top of the stack.
C1_CallReturnRestoresFrame ==
    LET e == hist.event
    IN  e.call.kind = "CALL" =>
            /\ thread.sp = e.call.sp - e.call.nargs
            /\ thread.fp = e.call.fp
            /\ thread.indirStackSize = e.call.indirStackSize
            /\ thread.pc = e.call.pc
            /\ e.op = OP_RETURN => thread.retVal = Tiny_Null
            /\ e.op = OP_RETURN_VALUE =>
                    /\ e.before.sp > 0
                    /\ thread.retVal = e.before.stack[e.before.sp]

\* a RETURN_VALUE of a nested call whose callee had a local and a temporary
\* above its frame, returning a value that is not null
C1_Witness ==
    LET e == hist.event
    IN  /\ e.call.kind = "CALL"
        /\ e.op = OP_RETURN_VALUE
        /\ e.call.nargs > 0
        /\ e.before.sp > e.before.fp + 1
        /\ Len(hist.calls) > 0
        /\ thread.retVal # Tiny_Null

\* C2: when Tiny_CallFunction returns, pc, fp, sp and indirStackSize are what
\* they were immediately before the call, at any depth of re-entrant calls; on
\* a thread that was done before the call the globals are allocated and the
\* thread is done again.
C2_CallFunctionRestoresRegisters ==
    LET e == hist.event
    IN  e.kind = "Tiny_CallFunction:return" =>
            /\ e.call.kind = "API"
            /\ thread.pc = e.call.pc
            /\ thread.fp = e.call.fp
            /\ thread.sp = e.call.sp
            /\ thread.indirStackSize = e.call.indirStackSize
            /\ e.call.pc < 0 =>
                    /\ Tiny_IsThreadDone(thread)
                    /\ thread.globalsAllocated
                    /\ Len(thread.globalVars) = state.numGlobalVars

\* a Tiny_CallFunction made by a foreign callee inside a function that was
\* itself called through Tiny_CallFunction returns, with sp above fp before it
C2_Witness ==
    LET e == hist.event
    IN  /\ e.kind = "Tiny_CallFunction:return"
        /\ Len(thread.cstack) >= 2
        /\ e.call.sp > e.call.fp
        /\ e.call.nargs > 0
        /\ thread.retVal.type = "NUM"

\* C8: OP_CALLF nargs,f executed at stack pointer s hands its callee the
\* slice stack[s - nargs .. s) in push order with count nargs; when the callee
\* has returned, its result is in the return register, sp = s - nargs, fp and
\* indirStackSize are unchanged and pc is just after the CALLF, also when the
\* callee re-entered the VM through Tiny_CallFunction.
C8_ForeignCallFrame ==
    LET e == hist.event
        b == e.before
        nargs == ReadInteger(b.pc + 1)
        slice == SubSeq(b.stack, b.sp - nargs + 1, b.sp)
    IN  /\ (CycleEvent /\ e.kind # "OP_CALLF:return" /\ e.op = OP_CALLF
                /\ (thread.status = "ok" \/ Suspended(b, thread))) =>
                /\ thread.called.args = slice
                /\ thread.called.count = nargs
                /\ thread.called.callee = state.foreignFunctions[ReadInteger(b.pc + 5) + 1]
                /\ (thread.status = "ok" /\ ~Suspended(b, thread)) =>
                      /\ thread.retVal = ForeignCallee(b, thread.called.callee, slice).ret
                      /\ thread.sp = b.sp - nargs
                      /\ thread.fp = b.fp
                      /\ thread.indirStackSize = b.indirStackSize
                      /\ thread.pc = b.pc + 9
        /\ e.kind = "OP_CALLF:return" =>
                /\ e.call.kind = "CALLF"
                /\ thread.retVal = b.retVal
                /\ thread.sp = e.call.sp - e.call.nargs
                /\ thread.fp = e.call.fp
                /\ thread.indirStackSize = e.call.indirStackSize
                /\ thread.pc = e.call.pc

\* a CALLF with two arguments whose callee re-entered the VM has finished,
\* inside a function (fp > 0), and returned a number
C8_Witness ==
    LET e == hist.event
    IN  /\ e.kind = "OP_CALLF:return"
        /\ e.call.nargs = 2
        /\ e.call.fp > 0
        /\ thread.retVal.type = "NUM"

\* the last operation was a cycle that ran to its end: it returned true and
\* its instruction is over (not waiting for a foreign callee inside the VM)
CycleEnded ==
    /\ CycleEvent
    /\ hist.event.result
    /\ thread.status = "ok"
    /\ hist.event.kind = "OP_CALLF:return" \/ ~Suspended(hist.event.before, thread)

\* the last operation ran a collection
Collected == thread.collections # hist.event.before.collections

\* C5: a collection runs at the end of an ExecuteCycle that executed, exactly
\* when numObjects >= maxNumObjects there, and at no other point (not in the
\* cycle that returns false, not in an API call, not while an instruction is
\* under way); maxNumObjects is 8 from Tiny_InitThread to the first collection
\* and 2 x numObjects immediately after every collection.
C5_CollectionAtEndOfCycle ==
    LET e == hist.event
    IN  /\ CycleEnded => (Collected <=> e.atEnd.numObjects >= e.atEnd.maxNumObjects)
        /\ ~CycleEnded => ~Collected
        /\ Collected => /\ thread.collections = e.before.collections + 1
                        /\ thread.maxNumObjects = 2 * thread.numObjects
        /\ ~Collected => thread.maxNumObjects = e.before.maxNumObjects
        /\ thread.collections = 0 => thread.maxNumObjects = 8

\* the second collection of a thread, due with numObjects = maxNumObjects
\* where maxNumObjects is twice what the first collection left
C5_Witness ==
    /\ Collected
    /\ thread.collections = 2
    /\ hist.event.atEnd.numObjects = hist.event.atEnd.maxNumObjects
    /\ hist.event.atEnd.maxNumObjects # 8

\* the bytes of the instruction with opcode op: the opcode and its operands
OpSize(op) ==
    IF op \in {OP_CALL, OP_CALLF} THEN 9
    ELSE IF op \in {OP_PUSH_NUMBER, OP_PUSH_STRING, OP_SET, OP_GET, OP_GOTO, OP_GOTOZ,
                    OP_GETLOCAL, OP_SETLOCAL} THEN 5
    ELSE 1

\* where one instruction executed at t.pc may leave pc
NextPcs(t) ==
    LET op == OpAt(t)
    IN  CASE op = OP_GOTO -> {ReadInteger(t.pc + 1)}
          [] op = OP_GOTOZ -> {ReadInteger(t.pc + 1), t.pc + 5}
          [] op = OP_CALL -> {FunctionPc(ReadInteger(t.pc + 5))}
          [] op \in {OP_RETURN, OP_RETURN_VALUE} ->
                {t.indirStack[i] : i \in {t.indirStackSize} \cap 1..TINY_THREAD_INDIR_SIZE}
          [] op = OP_HALT -> {-1}
          [] OTHER -> {t.pc + OpSize(op)}

\* C6: Tiny_ExecuteCycle returns false iff pc < 0 on entry, and then does
\* nothing; otherwise it returns true and has executed exactly the instruction
\* at pc (pc is where that one instruction leaves it, once its foreign callee
\* is not still running inside the VM), the cycle of HALT too.
C6_ExecuteCycleResult ==
    LET e == hist.event
    IN  e.kind \in {"Tiny_ExecuteCycle", "ExecuteCycle"} =>
            /\ e.result <=> ~(e.before.pc < 0)
            /\ e.result <=> ~Tiny_IsThreadDone(e.before)
            /\ ~e.result => thread = e.before
            /\ (e.result /\ thread.status = "ok") =>
                    /\ e.atEnd = ExecuteInstruction(e.before)
                    /\ ~Suspended(e.before, thread) => thread.pc \in NextPcs(e.before)
            /\ e.op = OP_HALT => e.result

\* the host's cycle that executes HALT: it returns true and the thread is done
C6_Witness ==
    /\ hist.event.kind = "Tiny_ExecuteCycle"
    /\ hist.event.op = OP_HALT
    /\ hist.event.result
    /\ Tiny_IsThreadDone(thread)

\* C7: HALT sets pc to -1; an ExecuteCycle on a thread with pc < 0 leaves the
\* whole thread as it was; and pc goes from < 0 to >= 0 only in
\* Tiny_StartThread or Tiny_CallFunction.
C7_DoneStaysDone ==
    LET e == hist.event
    IN  /\ (CycleEvent /\ e.op = OP_HALT /\ thread.status = "ok") => thread.pc = -1
        /\ (CycleEvent /\ e.before.pc < 0) => thread = e.before
        /\ (e.before.pc < 0 /\ thread.pc >= 0) =>
                e.kind \in {"Tiny_StartThread", "Tiny_CallFunction"}

\* a cycle on a thread that ran to its HALT: nothing changes, the heap and
\* the globals of the run are still there
C7_Witness ==
    /\ hist.event.kind = "Tiny_ExecuteCycle"
    /\ ~hist.event.result
    /\ hist.starts > 0
    /\ thread.pc = -1
    /\ thread.numObjects > 0
    /\ thread = hist.event.before

\* the values the collector starts from: the return register, the stack
\* slots in [0, sp), the global variables
RootValues(t) ==
    {t.retVal} \cup {t.stack[i] : i \in 1..t.sp} \cup {t.globalVars[i] : i \in 1..Len(t.globalVars)}

RECURSIVE ProtectedFrom(_, _)
\* the objects in objs and those protected by the protectFromGC callback of
\* a native among them, the callbacks being those the mark phase calls: of
\* natives it reaches with their mark clear
ProtectedFrom(t, objs) ==
    LET more == UNION {t.heap[o].refs : o \in {x \in objs :
                            /\ t.heap[x].type = "NATIVE"
                            /\ t.heap[x].protectFromGC
                            /\ t.heap[x].marked = 0}}
    IN  IF more \subseteq objs THEN objs ELSE ProtectedFrom(t, objs \cup more)

Protected(t) == ProtectedFrom(t, {v.val : v \in {r \in RootValues(t) : IsObject(r)}})

Listed(t) == {t.gcHead[i] : i \in 1..Len(t.gcHead)}

NoDuplicates(seq) == \A i, j \in 1..Len(seq) : seq[i] = seq[j] => i = j

\* C4: every heap object is deleted at most once, and a native with a finalize
\* callback is finalized exactly when it is deleted; a sweep deletes exactly
\* the unmarked objects, in list order, and unlinks them; Tiny_DestroyThread
\* deletes every object still listed, in list order, and leaves the list
\* empty, so that by then every object was deleted exactly once.
C4_DeletedExactlyOnce ==
    LET e == hist.event
        m == MarkAll(e.atEnd)
        new == SubSeq(thread.deleted, Len(e.before.deleted) + 1, Len(thread.deleted))
    IN  /\ NoDuplicates(thread.deleted)
        /\ thread.finalized =
                SelectSeq(thread.deleted,
                          LAMBDA o : thread.heap[o].type = "NATIVE" /\ thread.heap[o].finalize)
        /\ \A o \in 1..Len(thread.heap) :
                thread.heap[o].freed <=> \E i \in 1..Len(thread.deleted) : thread.deleted[i] = o
        /\ Collected =>
                /\ new = SelectSeq(m.gcHead, LAMBDA o : m.heap[o].marked = 0)
                /\ thread.gcHead = SelectSeq(m.gcHead, LAMBDA o : m.heap[o].marked = 1)
        /\ e.kind = "Tiny_DestroyThread" =>
                /\ new = e.before.gcHead
                /\ thread.gcHead = << >>
                /\ \A o \in 1..Len(thread.heap) :
                        Cardinality({i \in 1..Len(thread.deleted) : thread.deleted[i] = o}) = 1
        /\ (~Collected /\ e.kind # "Tiny_DestroyThread") => new = << >>

\* Tiny_DestroyThread after a collection that had swept natives: it deleted
\* at least two more objects, one of them a native with a finalize callback
C4_Witness ==
    /\ hist.event.kind = "Tiny_DestroyThread"
    /\ thread.collections > 0
    /\ Len(hist.event.before.gcHead) >= 2
    /\ Len(thread.finalized) > Len(hist.event.before.finalized)
    /\ Len(hist.event.before.finalized) > 0

PushOps ==
    {OP_PUSH_NULL, OP_PUSH_TRUE, OP_PUSH_FALSE, OP_PUSH_NUMBER, OP_PUSH_STRING,
     OP_GET, OP_GETLOCAL, OP_GET_RETVAL}

\* C10: a push with sp at the capacity of the value stack and a pop with
\* sp <= 0 end the process and write neither the stack nor sp; and a thread
\* that runs bytecode the compiler produced always has 0 <= sp <= capacity.
C10_StackBounds ==
    LET e == hist.event
    IN  /\ (CycleEvent /\ e.result /\ e.op \in PushOps /\ e.before.sp >= MAX_STACK) =>
                /\ thread.status = "exit"
                /\ thread.stack = e.before.stack
                /\ thread.sp = e.before.sp
        /\ (CycleEvent /\ e.result /\ e.op = OP_POP /\ e.before.sp <= 0) =>
                /\ thread.status = "exit"
                /\ thread.stack = e.before.stack
                /\ thread.sp = e.before.sp
        /\ hist.source = "compiler" => (0 <= thread.sp /\ thread.sp <= MAX_STACK)
        /\ Len(thread.stack) = TINY_THREAD_STACK_SIZE

\* compiled code pushed with the stack full: the process ended, the stack is
\* as it was
C10_Witness ==
    /\ hist.source = "compiler"
    /\ CycleEvent
    /\ hist.event.op \in PushOps
    /\ hist.event.before.sp = MAX_STACK
    /\ thread.status = "exit"
    /\ thread.stack = hist.event.before.stack

\* a cycle may run next: no C activation is open, or the loop of
\* Tiny_CallFunction has not reached its end
Runnable(t) ==
    /\ t.status = "ok" /\ ~t.destroyed
    /\ \/ t.cstack = << >>
       \/ /\ Last(t.cstack).kind = "Tiny_CallFunction"
          /\ t.indirStackSize > Last(t.cstack).indirStackSize

\* the next step of the thread and of the C activations above it
RunStep(t) ==
    IF t.cstack # << >> /\ Last(t.cstack).kind = "OP_CALLF"
    THEN ExecuteCallFReturn(t, t.retVal)
    ELSE IF t.cstack # << >> /\ ~(t.indirStackSize > Last(t.cstack).indirStackSize)
    THEN Tiny_CallFunctionLeave(t)
    ELSE ExecuteCycle(t).thread

RECURSIVE RunUntil(_, _, _, _)
\* run until the C activations are down to depth and indirStackSize to size
RunUntil(t, depth, size, fuel) ==
    IF t.status # "ok" THEN t
    ELSE IF Len(t.cstack) = depth /\ t.indirStackSize <= size THEN t
    ELSE IF fuel = 0 THEN Fatal(t, "hung")
    ELSE RunUntil(RunStep(t), depth, size, fuel - 1)

\* script code at CALL nargs,f with the arguments pushed: the CALL and the
\* callee up to the matching return
ScriptCall(t) ==
    RunUntil(ExecuteCycle(t).thread, Len(t.cstack), t.indirStackSize, MaxRunSteps)

\* the host, on the same thread before the arguments were pushed:
\* Tiny_CallFunction(thread, f, args, nargs) up to its return
ApiCall(t) ==
    LET nargs == ReadInteger(t.pc + 1)
        f == ReadInteger(t.pc + 5)
        args == SubSeq(t.stack, t.sp - nargs + 1, t.sp)
        t0 == [t EXCEPT !.sp = t.sp - nargs]
        t1 == RunUntil(Tiny_CallFunctionEnter(t0, f, args), Len(t.cstack) + 1,
                       t.indirStackSize, MaxRunSteps)
    IN  IF t1.status # "ok" THEN t1 ELSE Tiny_CallFunctionLeave(t1)

AtCall(t) == Runnable(t) /\ OpAt(t) = OP_CALL /\ ReadInteger(t.pc + 1) <= t.sp

\* C9: wherever script code is about to call a user function f with the
\* arguments a1..an it pushed, the call from the script and
\* Tiny_CallFunction(thread, f, a1..an, n) on that thread give the same
\* return value and the same globals (and end the process alike).
C9_ScriptCallEqualsApiCall ==
    AtCall(thread) =>
        LET s == ScriptCall(thread)
            a == ApiCall(thread)
        IN  /\ s.status = a.status
            /\ s.status = "ok" =>
                    /\ s.retVal = a.retVal
                    /\ s.globalVars = a.globalVars

\* a call with two arguments that returns normally and changes a global
C9_Witness ==
    /\ AtCall(thread)
    /\ ReadInteger(thread.pc + 1) = 2
    /\ ScriptCall(thread).status = "ok"
    /\ ApiCall(thread).status = "ok"
    /\ ApiCall(thread).globalVars # thread.globalVars


(***************************************************************************)
(* Several compilations on one State.  The host creates the State, binds   *)
(* its foreign functions and a constant, compiles up to MaxUnits sources   *)
(* with Tiny_CompileString, then starts a thread and runs it.              *)
(***************************************************************************)
\* source trees: what the tokens of a source spell
Ident(name) == [type |-> "ID", name |-> name]
Number(value) == [type |-> "NUM", value |-> value]
String(value) == [type |-> "STRING", value |-> value]
Func(name, args, body) == [type |-> "PROC", name |-> name, args |-> args, body |-> body]
If(cond, body, alt) == [type |-> "IF", cond |-> cond, body |-> body, alt |-> alt]
For(init, cond, step, body) ==
    [type |-> "FOR", init |-> init, cond |-> cond, step |-> step, body |-> body]

\* the sources the host compiles
Units ==
    << \* a := 1  func inc(x) { return x + 1 }
       [name |-> "decl",
        source |-> << Bin(":=", Ident("a"), Number(1)),
                      Func("inc", << "x" >>,
                           Block(<< Ret(Bin("+", Ident("x"), Number(1))) >>)) >>],
       \* a = inc(a)
       [name |-> "inc",
        source |-> << Bin("=", Ident("a"), Call("inc", << Ident("a") >>)) >>],
       \* a *= 2
       [name |-> "dbl",
        source |-> << Bin("*=", Ident("a"), Number(2)) >>],
       \* while a < limit { a += 1 }
       [name |-> "clip",
        source |-> << While(Bin("<", Ident("a"), Ident("limit")),
                            Block(<< Bin("+=", Ident("a"), Number(1)) >>)) >>],
       \* if a == 2 { a = 10 } else a = 0
       [name |-> "pick",
        source |-> << If(Bin("==", Ident("a"), Number(2)),
                         Block(<< Bin("=", Ident("a"), Number(10)) >>),
                         Bin("=", Ident("a"), Number(0))) >>],
       \* for i := 0; i < 2; i += 1 { a = a + i }
       [name |-> "count",
        source |-> << For(Bin(":=", Ident("i"), Number(0)),
                          Bin("<", Ident("i"), Number(2)),
                          Bin("+=", Ident("i"), Number(1)),
                          Block(<< Bin("=", Ident("a"),
                                       Bin("+", Ident("a"), Ident("i"))) >>)) >>],
       \* func deep(n) { i := n  while i > 0 { if i == 2 { i = 0 } else { i -= 1 } }
       \*                return i }
       \* a += deep(3)
       [name |-> "nest",
        source |-> << Func("deep", << "n" >>,
                           Block(<< Bin(":=", Ident("i"), Ident("n")),
                                    While(Bin(">", Ident("i"), Number(0)),
                                          Block(<< If(Bin("==", Ident("i"), Number(2)),
                                                      Block(<< Bin("=", Ident("i"),
                                                                   Number(0)) >>),
                                                      Block(<< Bin("-=", Ident("i"),
                                                                   Number(1)) >>)) >>)),
                                    Ret(Ident("i")) >>)),
                      Bin("+=", Ident("a"), Call("deep", << Number(3) >>)) >>],
       \* a = twice(a)  func twice(x) { return x * 2 }
       [name |-> "fwd",
        source |-> << Bin("=", Ident("a"), Call("twice", << Ident("a") >>)),
                      Func("twice", << "x" >>,
                           Block(<< Ret(Bin("*", Ident("x"), Number(2))) >>)) >>],
       \* a = sub(a, 1)
       [name |-> "sub",
        source |-> << Bin("=", Ident("a"), Call("sub", << Ident("a"), Number(1) >>)) >>],
       \* (an empty source)
       [name |-> "none", source |-> << >>] >>

\* how many sources the host compiles on the State
MaxUnits == 3

\* the process's pools at its start, and no compile error yet
AtProcessStart(st) == st @@ [Numbers |-> << >>, Strings |-> << >>, failed |-> FALSE]

RECURSIVE BindFunctions(_, _, _)
\* Tiny_BindFunction for callees[i], callees[i + 1], ...
BindFunctions(st, callees, i) ==
    IF i > Len(callees) THEN st
    ELSE BindFunctions(Tiny_BindFunction(st, callees[i].name, callees[i].callee),
                       callees, i + 1)

\* the State the host prepares: its bindings and the constant limit :: 3
HostState ==
    Tiny_BindConstNumber(BindFunctions(AtProcessStart(Tiny_CreateState), HostBindings, 1),
                         "limit", 3)

InitUnits ==
    /\ state = HostState
    /\ thread = Tiny_InitThread
    /\ hist = [calls |-> << >>, hostCalls |-> 0, starts |-> 0,
               source |-> "units", program |-> "units", choices |-> {},
               units |-> << >>,
               event |-> Event("Tiny_InitThread", Tiny_InitThread, Tiny_InitThread,
                               FALSE, NoCall)]

\* Tiny_CompileString of one of the sources, before the thread is started
CompileUnit ==
    /\ HostTurn
    /\ ~state.failed
    /\ hist.starts = 0
    /\ Len(hist.units) < MaxUnits
    /\ \E u \in 1..Len(Units) :
          /\ state' = Tiny_CompileString(state, Units[u].source)
          /\ thread' = IF state'.failed THEN Fatal(thread, "exit") ELSE thread
          /\ hist' = [hist EXCEPT
                        !.units = Append(@, Units[u].name),
                        !.event = [kind |-> "Tiny_CompileString", before |-> thread,
                                   atEnd |-> thread, op |-> -1, result |-> FALSE,
                                   call |-> NoCall]]

NextUnits ==
    \/ CompileUnit
    \/ StartThread
    \/ HostExecuteCycle

SpecUnits == InitUnits /\ [][NextUnits]_vars

RECURSIVE InstructionPcs(_, _)
\* the offsets of the instructions of program from pc on, decoding in order
InstructionPcs(program, pc) ==
    IF pc >= Len(program) THEN {}
    ELSE {pc} \cup InstructionPcs(program, pc + OpSize(program[pc + 1]))

\* what the top-level statements of a source do to the global a
UnitEffect(name, a) ==
    CASE name = "decl" -> 1
      [] name = "inc" -> a + 1
      [] name = "dbl" -> a * 2
      [] name = "clip" -> IF a < 3 THEN 3 ELSE a
      [] name = "pick" -> IF a = 2 THEN 10 ELSE 0
      [] name = "count" -> a + 1
      [] name = "fwd" -> a * 2
      [] name = "sub" -> a - 1
      [] OTHER -> a

RECURSIVE UnitEffects(_, _, _)
\* the effects of units[i], units[i + 1], ... in order
UnitEffects(units, i, a) ==
    IF i > Len(units) THEN a ELSE UnitEffects(units, i + 1, UnitEffect(units[i], a))

\* the program was compiled at least once, and every compilation succeeded
Compiled1(k) == hist.source = "units" /\ ~state.failed /\ Len(hist.units) >= k

\* C11: after k >= 1 successful compilations the last byte of the program is
\* a HALT instruction and no other instruction of it is a HALT; a thread
\* started at pc 0 that has halted has executed the top-level statements of
\* all k sources in compilation order (the global a holds the value they
\* give it in that order).
C11_OneTrailingHalt ==
    Compiled1(1) =>
        LET pcs == InstructionPcs(state.program, 0)
            last == Len(state.program) - 1
            a == Tiny_GetGlobalIndex(state, "a")
        IN  /\ last >= 0 /\ last \in pcs
            /\ \A pc \in pcs : state.program[pc + 1] = OP_HALT <=> pc = last
            /\ (hist.starts > 0 /\ thread.status = "ok" /\ thread.pc < 0 /\ a >= 0) =>
                    thread.globalVars[a + 1] = Tiny_NewNumber(UnitEffects(hist.units, 1, 0))

\* three sources with differing effects, run to the HALT
C11_Witness ==
    /\ Compiled1(3)
    /\ hist.units = << "decl", "dbl", "inc" >>
    /\ hist.starts > 0 /\ thread.status = "ok" /\ thread.pc < 0
    /\ thread.globalVars[1] = Tiny_NewNumber(3)


(***************************************************************************)
(* Two threads on one compiled State.  In SpecThreads the variable thread  *)
(* holds both Tiny_StateThreads (thread[1], thread[2]); the host calls the *)
(* API on either of them in any order.  hist.alone[i] is thread i as it    *)
(* would be had the host made the same calls on it with no other thread.   *)
(***************************************************************************)
\* g := 0
\* s := mkstr()
\* func bump(n) { g = g + n  return g }
\* func fill(n) { s = mkstr() (eight times: a collection starts)  return bump(n) }
\* g = bump(1)
ThreadsSource ==
    << Bin(":=", Ident("g"), Number(0)),
       Bin(":=", Ident("s"), Call("mkstr", << >>)),
       Func("bump", << "n" >>,
            Block(<< Bin("=", Ident("g"), Bin("+", Ident("g"), Ident("n"))),
                     Ret(Ident("g")) >>)),
       Func("fill", << "n" >>,
            Block([k \in 1..8 |-> Bin("=", Ident("s"), Call("mkstr", << >>))]
                  \o << Ret(Call("bump", << Ident("n") >>)) >>)),
       Bin("=", Ident("g"), Call("bump", << Number(1) >>)) >>

\* Tiny_ExecuteCycle as the host sees it: a foreign callee that enters the
\* VM has returned when the cycle returns
HostCycle(t) ==
    LET r == ExecuteCycle(t)
    IN  IF Suspended(t, r.thread)
        THEN RunUntil(r.thread, Len(t.cstack), TINY_THREAD_INDIR_SIZE, MaxRunSteps)
        ELSE r.thread

\* Tiny_CallFunction from its entry to its return; the value it returns is
\* left in retVal
Tiny_CallFunction(t, functionIndex, args) ==
    LET t1 == RunUntil(Tiny_CallFunctionEnter(t, functionIndex, args), Len(t.cstack) + 1,
                       t.indirStackSize, MaxRunSteps)
    IN  IF t1.status # "ok" THEN t1 ELSE Tiny_CallFunctionLeave(t1)

\* Tiny_SetGlobal without the assert on the index
Tiny_SetGlobal_Unchecked(t, globalIndex, value) ==
    IF ~t.globalsAllocated THEN Fatal(t, "exit")
    ELSE IF globalIndex >= 0 /\ globalIndex < Len(t.globalVars)
        THEN [t EXCEPT !.globalVars[globalIndex + 1] = value]
    ELSE t

\* Tiny_SetGlobal: asserts the index and the allocation, then stores.  A
\* slot outside the array the thread allocated is outside the object.
Tiny_SetGlobal(t, globalIndex, value) ==
    IF ~(globalIndex >= 0 /\ globalIndex < state.numGlobalVars) THEN Fatal(t, "exit")
    ELSE IF ~t.globalsAllocated THEN Fatal(t, "exit")
    ELSE IF globalIndex >= Len(t.globalVars) THEN Fatal(t, "ub")
    ELSE [t EXCEPT !.globalVars[globalIndex + 1] = value]

\* Tiny_GetGlobal: asserts the index and the allocation, then reads
Tiny_GetGlobal(t, globalIndex) ==
    IF ~(globalIndex >= 0 /\ globalIndex < state.numGlobalVars)
    THEN [thread |-> Fatal(t, "exit"), value |-> Tiny_Null]
    ELSE IF ~t.globalsAllocated THEN [thread |-> Fatal(t, "exit"), value |-> Tiny_Null]
    ELSE IF globalIndex >= Len(t.globalVars)
        THEN [thread |-> Fatal(t, "ub"), value |-> Tiny_Null]
    ELSE [thread |-> t, value |-> t.globalVars[globalIndex + 1]]

Threads == 1..2

\* an operation on thread i that also stores its globals in the other thread
StepThread_SharedGlobals(threads, i, t) ==
    [j \in Threads |-> IF j = i THEN t ELSE [threads[j] EXCEPT !.globalVars = t.globalVars]]

\* an operation that was handed thread i and left it as t: the globals, the
\* stacks, the registers and the object list it wrote are fields of thread i
StepThread(threads, i, t) == [threads EXCEPT ![i] = t]

InitThreads ==
    /\ state = Tiny_CompileString(HostState, ThreadsSource)
    /\ thread = [i \in Threads |-> Tiny_InitThread]
    /\ hist = [alone |-> [i \in Threads |-> Tiny_InitThread],
               state |-> state,
               starts |-> [i \in Threads |-> 0],
               hostCalls |-> [i \in Threads |-> 0],
               event |-> [kind |-> "Tiny_InitThread", i |-> 0, before |-> thread]]

\* the process runs and no call on thread i is open
ThreadTurn(i) == \A j \in Threads : thread[j].status = "ok"

\* the host's call kind on thread i took it to t, and the thread alone to a
ThreadStep(kind, i, t, a) ==
    /\ WithinBounds(t)
    /\ thread' = StepThread(thread, i, t)
    /\ hist' = [hist EXCEPT
                  !.alone[i] = a,
                  !.starts[i] = IF kind = "Tiny_StartThread" THEN @ + 1 ELSE @,
                  !.hostCalls[i] = IF kind \in {"Tiny_CallFunction", "Tiny_SetGlobal"}
                                   THEN @ + 1 ELSE @,
                  !.event = [kind |-> kind, i |-> i,
                             before |-> [j \in Threads \ {i} |-> thread[j]]]]
    /\ UNCHANGED state

ThreadStart(i) ==
    /\ ThreadTurn(i)
    /\ hist.starts[i] < MaxStarts
    /\ thread[i].pc < 0
    /\ ThreadStep("Tiny_StartThread", i, Tiny_StartThread(thread[i]),
                  Tiny_StartThread(hist.alone[i]))

ThreadCycle(i) ==
    /\ ThreadTurn(i)
    /\ thread[i].pc >= 0
    /\ ThreadStep("Tiny_ExecuteCycle", i, HostCycle(thread[i]), HostCycle(hist.alone[i]))

ThreadCall(i) ==
    /\ ThreadTurn(i)
    /\ hist.hostCalls[i] < MaxHostCalls
    /\ LET f == Tiny_GetFunctionIndex(state, "fill")
           args == << Tiny_NewNumber(2) >>
       IN  ThreadStep("Tiny_CallFunction", i, Tiny_CallFunction(thread[i], f, args),
                      Tiny_CallFunction(hist.alone[i], f, args))

ThreadSetGlobal(i) ==
    /\ ThreadTurn(i)
    /\ hist.hostCalls[i] < MaxHostCalls
    /\ LET g == Tiny_GetGlobalIndex(state, "g")
           value == Tiny_NewNumber(5 * i)
       IN  ThreadStep("Tiny_SetGlobal", i, Tiny_SetGlobal(thread[i], g, value),
                      Tiny_SetGlobal(hist.alone[i], g, value))

NextThreads ==
    \E i \in Threads :
        \/ ThreadStart(i)
        \/ ThreadCycle(i)
        \/ ThreadCall(i)
        \/ ThreadSetGlobal(i)

SpecThreads == InitThreads /\ [][NextThreads]_vars

EquSource ==
    << Bin(":=", Ident("x"), String(HostStrings.tmp)),
       Bin(":=", Ident("y"), String(HostStrings.gone)),
       Func("eq", << "a", "b" >>, Block(<< Ret(Bin("==", Ident("a"), Ident("b"))) >>)) >>

\* the host's allocations on the started thread: owned strings 1, 2 ("tmp")
\* and 3 ("gone"), natives 4, 5 (one payload address) and 6 (another)
EquThread ==
    LET s1 == Tiny_NewString(Tiny_StartThread(Tiny_InitThread), HostStrings.tmp)
        s2 == Tiny_NewString(s1, HostStrings.tmp)
        s3 == Tiny_NewString(s2, HostStrings.gone)
        n4 == Tiny_NewNative(s3, NativeAddr(4), {}, NativeProp)
        n5 == Tiny_NewNative(n4, NativeAddr(4), {}, NativeProp)
    IN  Tiny_NewNative(n5, NativeAddr(6), {}, NativeProp)

\* the values the host passes
EquValues ==
    {Tiny_Null, Tiny_NewBool(TRUE), Tiny_NewBool(FALSE), Tiny_NewNumber(0), Tiny_NewNumber(1),
     Tiny_NewConstString(0), Tiny_NewConstString(1),
     Tiny_NewLightNative(1), Tiny_NewLightNative(2)}
    \cup {ObjectValue(EquThread, obj) : obj \in 1..6}

MaxEquCalls == 1

InitEqu ==
    /\ state = Tiny_CompileString(HostState, EquSource)
    /\ thread = EquThread
    /\ hist = [a |-> Tiny_Null, b |-> Tiny_Null, calls |-> 0,
               event |-> [op |-> -1, before |-> thread]]

\* the host calls eq(a, b): Tiny_CallFunction up to its loop
EquCall ==
    /\ thread.status = "ok" /\ thread.cstack = << >>
    /\ hist.calls < MaxEquCalls
    /\ \E a \in EquValues, b \in EquValues :
          /\ thread' = Tiny_CallFunctionEnter(thread, Tiny_GetFunctionIndex(state, "eq"),
                                              << a, b >>)
          /\ hist' = [a |-> a, b |-> b, calls |-> hist.calls + 1,
                      event |-> [op |-> -1, before |-> thread]]
    /\ UNCHANGED state

\* one pass of the loop of Tiny_CallFunction
EquCycle ==
    /\ thread.status = "ok" /\ thread.cstack # << >>
    /\ thread.indirStackSize > Last(thread.cstack).indirStackSize
    /\ thread' = ExecuteCycle(thread).thread
    /\ hist' = [hist EXCEPT !.event = [op |-> OpAt(thread), before |-> thread]]
    /\ UNCHANGED state

\* the loop has ended: Tiny_CallFunction returns
EquReturn ==
    /\ thread.status = "ok" /\ thread.cstack # << >>
    /\ thread.indirStackSize <= Last(thread.cstack).indirStackSize
    /\ thread' = Tiny_CallFunctionLeave(thread)
    /\ hist' = [hist EXCEPT !.event = [op |-> -1, before |-> thread]]
    /\ UNCHANGED state

NextEqu == EquCall \/ EquCycle \/ EquReturn

SpecEqu == InitEqu /\ [][NextEqu]_vars

\* the characters of a string value of either kind
Content(t, v) ==
    IF v.type = "CONST_STRING" THEN state.Strings[v.val + 1] ELSE t.heap[v.val].string

\* equality as the language defines it
EquRule(t, a, b) ==
    LET strings == {"CONST_STRING", "STRING"}
    IN  IF a.type \in strings /\ b.type \in strings THEN Content(t, a) = Content(t, b)
        ELSE IF a.type # b.type THEN FALSE
        ELSE IF a.type = "NULL" THEN TRUE
        ELSE IF a.type = "NATIVE" THEN t.heap[a.val].addr = t.heap[b.val].addr
        ELSE a.val = b.val

\* C13: an EQU takes the two values on top of the stack (b on top, a under
\* it) and leaves one boolean in their place: false for differing tags
\* except const-string against owned string, which compare by content like
\* any two strings; null equals null; booleans, numbers by value; natives
\* by the address they wrap, light natives by their address.
C13_EquRule ==
    (hist.event.op = OP_EQU /\ thread.status = "ok") =>
        LET t == hist.event.before
        IN  /\ t.stack[t.sp] = hist.b /\ t.stack[t.sp - 1] = hist.a
            /\ thread.sp = t.sp - 1
            /\ thread.stack[thread.sp] = Tiny_NewBool(EquRule(t, hist.a, hist.b))
            /\ SubSeq(thread.stack, 1, thread.sp - 1) = SubSeq(t.stack, 1, thread.sp - 1)

\* a const-string and an owned string of the same content compared equal
C13_Witness ==
    /\ hist.event.op = OP_EQU /\ thread.status = "ok"
    /\ hist.a.type = "CONST_STRING" /\ hist.b.type = "STRING"
    /\ thread.stack[thread.sp] = Tiny_NewBool(TRUE)

(***************************************************************************)
(* The thread API on one thread.  In SpecApi the host starts and restarts  *)
(* the thread, runs cycles, calls a script function, and reads and writes  *)
(* globals with indices inside and outside [0, numGlobalVars), before and  *)
(* after the globals are allocated.                                        *)
(***************************************************************************)
\* g := 1
\* s := mkstr()
\* h := g + 2
\* func id(n) { return n }
ApiSource ==
    << Bin(":=", Ident("g"), Number(1)),
       Bin(":=", Ident("s"), Call("mkstr", << >>)),
       Bin(":=", Ident("h"), Bin("+", Ident("g"), Number(2))),
       Func("id", << "n" >>, Block(<< Ret(Ident("n")) >>)) >>

MaxApiStarts == 2
MaxApiCalls == 2

\* the indices and the values the host passes
ApiIndices == -1..state.numGlobalVars
ApiValues == {Tiny_NewNumber(7), Tiny_NewBool(TRUE)}

ApiEvent(kind, index, value, got) ==
    [kind |-> kind, before |-> thread, index |-> index, value |-> value, got |-> got,
     prev |-> [kind |-> hist.event.kind, index |-> hist.event.index,
               value |-> hist.event.value]]

InitApi ==
    /\ state = Tiny_CompileString(HostState, ApiSource)
    /\ thread = Tiny_InitThread
    /\ hist = [starts |-> 0, calls |-> 0, callFunctions |-> 0,
               event |-> [kind |-> "Tiny_InitThread", before |-> thread, index |-> 0,
                          value |-> Tiny_Null, got |-> Tiny_Null,
                          prev |-> [kind |-> "NONE", index |-> 0, value |-> Tiny_Null]]]

ApiStart ==
    /\ thread.status = "ok"
    /\ hist.starts < MaxApiStarts
    /\ thread' = Tiny_StartThread(thread)
    /\ hist' = [hist EXCEPT !.starts = @ + 1,
                            !.event = ApiEvent("Tiny_StartThread", 0, Tiny_Null, Tiny_Null)]
    /\ UNCHANGED state

ApiCycle ==
    /\ thread.status = "ok"
    /\ thread.pc >= 0
    /\ thread' = HostCycle(thread)
    /\ hist' = [hist EXCEPT !.event = ApiEvent("Tiny_ExecuteCycle", 0, Tiny_Null, Tiny_Null)]
    /\ UNCHANGED state

ApiCallFunction ==
    /\ thread.status = "ok"
    /\ hist.calls < MaxApiCalls
    /\ \E value \in ApiValues :
          /\ thread' = Tiny_CallFunction(thread, Tiny_GetFunctionIndex(state, "id"),
                                         << value >>)
          /\ hist' = [hist EXCEPT !.calls = @ + 1, !.callFunctions = @ + 1,
                                  !.event = ApiEvent("Tiny_CallFunction", 0, value, Tiny_Null)]
    /\ UNCHANGED state

ApiSetGlobal ==
    /\ thread.status = "ok"
    /\ hist.calls < MaxApiCalls
    /\ \E index \in ApiIndices, value \in ApiValues :
          /\ thread' = Tiny_SetGlobal(thread, index, value)
          /\ hist' = [hist EXCEPT !.calls = @ + 1,
                                  !.event = ApiEvent("Tiny_SetGlobal", index, value, Tiny_Null)]
    /\ UNCHANGED state

ApiGetGlobal ==
    /\ thread.status = "ok"
    /\ hist.calls < MaxApiCalls
    /\ \E index \in ApiIndices :
          LET r == Tiny_GetGlobal(thread, index)
          IN  /\ thread' = r.thread
              /\ hist' = [hist EXCEPT !.calls = @ + 1,
                                      !.event = ApiEvent("Tiny_GetGlobal", index, Tiny_Null,
                                                         r.value)]
    /\ UNCHANGED state

NextApi == ApiStart \/ ApiCycle \/ ApiCallFunction \/ ApiSetGlobal \/ ApiGetGlobal

SpecApi == InitApi /\ [][NextApi]_vars

\* before the last call, the host had started the thread or called a
\* function on it, and the index of the call names a global
GlobalCallValid ==
    /\ hist.event.index >= 0 /\ hist.event.index < state.numGlobalVars
    /\ hist.starts + hist.callFunctions > 0

\* C16: Tiny_SetGlobal(i, v) on a thread with allocated globals and i in
\* [0, numGlobalVars) changes global i to v and nothing else of the thread;
\* Tiny_GetGlobal(i) then returns v and changes nothing; with i outside the
\* range, or on a thread neither started nor used by Tiny_CallFunction,
\* either call fails its assert.
C16_SetGetGlobal ==
    LET e == hist.event
    IN  /\ e.kind = "Tiny_SetGlobal" =>
              IF GlobalCallValid
              THEN thread = [e.before EXCEPT !.globalVars[e.index + 1] = e.value]
              ELSE thread.status = "exit"
        /\ e.kind = "Tiny_GetGlobal" =>
              IF GlobalCallValid
              THEN /\ thread = e.before
                   /\ (e.prev.kind = "Tiny_SetGlobal" /\ e.prev.index = e.index)
                         => e.got = e.prev.value
              ELSE thread.status = "exit"

\* a global written in the middle of the program and read back
C16_Witness ==
    /\ hist.event.kind = "Tiny_GetGlobal" /\ thread.status = "ok"
    /\ hist.event.prev.kind = "Tiny_SetGlobal" /\ hist.event.prev.index = hist.event.index
    /\ hist.event.index = 1 /\ hist.event.got = Tiny_NewNumber(7)
    /\ thread.pc > 0 /\ thread.sp > 0
    /\ thread.globalVars[1] = Tiny_NewNumber(1)

\* C18: Tiny_InitThread leaves a done thread (pc = -1) with sp = fp = 0, an
\* empty indirection stack, no objects and no globals; Tiny_StartThread
\* sets pc to 0 and, on a thread without globals, allocates numGlobalVars
\* nulls; on a thread that has its globals it changes nothing but pc.
C18_InitAndStart ==
    LET e == hist.event
    IN  /\ e.kind = "Tiny_InitThread" =>
              /\ thread.pc = -1 /\ thread.sp = 0 /\ thread.fp = 0
              /\ thread.indirStackSize = 0
              /\ thread.gcHead = << >> /\ thread.numObjects = 0
              /\ ~thread.globalsAllocated
        /\ e.kind = "Tiny_StartThread" =>
              /\ thread.pc = 0
              /\ IF hist.starts + hist.callFunctions = 1
                 THEN /\ thread.globalVars = [i \in 1..state.numGlobalVars |-> Tiny_Null]
                      /\ [thread EXCEPT !.pc = e.before.pc, !.globalVars = e.before.globalVars,
                                        !.globalsAllocated = e.before.globalsAllocated]
                            = e.before
                 ELSE [thread EXCEPT !.pc = e.before.pc] = e.before

\* a restart in the middle of an expression, with globals set, an object
\* listed and a value on the stack
C18_Witness ==
    /\ hist.event.kind = "Tiny_StartThread" /\ hist.starts = 2
    /\ hist.event.before.pc > 0 /\ thread.sp > 0
    /\ thread.globalVars[1] = Tiny_NewNumber(1)
    /\ thread.numObjects = 1

(***************************************************************************)
(* The symbol table while a source is parsed.  In SpecSymbols each step is *)
(* what the parser does at one token: a declaration (:=, ::), the head or  *)
(* the end of a function, the opening or closing of a block, the use of a  *)
(* name; the host asks for indices.                                        *)
(* hist keeps what the source says: the scopes that are open, and every    *)
(* declaration with the scope it was written in.                           *)
(***************************************************************************)
SymNames == {"a", "b", "mkstr"}
\* the names the source declares variables with, and the heads of its functions
VarNames == {"a", "b"}
ProcHeads == {[name |-> "a", args |-> << >>], [name |-> "a", args |-> << "a" >>]}
MaxDecls == 4
MaxDepth == 2
MaxScopes == 3

\* a State of the process, with the host's bindings, the pools as they are
HostStateWith(Numbers, Strings) ==
    Tiny_BindConstNumber(
        BindFunctions(Tiny_CreateState @@ [Numbers |-> Numbers, Strings |-> Strings,
                                           failed |-> FALSE],
                      HostBindings, 1),
        "limit", 3)

\* the declarations of kind in function func so far
DeclCount(decls, kind, func) ==
    Cardinality({k \in 1..Len(decls) : decls[k].kind = kind /\ decls[k].func = func})

Decl(kind, name, func, scope) ==
    [kind |-> kind, name |-> name, func |-> func, scope |-> scope,
     index |-> DeclCount(hist.decls, kind, func)]

SymEvent(kind, name, result) == [kind |-> kind, name |-> name, result |-> result, before |-> state]

\* the local of that name in the current function whose scope is open
VisibleLocals(name) ==
    {k \in 1..Len(hist.decls) :
        /\ hist.decls[k].kind = "local" /\ hist.decls[k].name = name
        /\ hist.curFunc # 0 /\ hist.decls[k].func = hist.curFunc
        /\ \E j \in 1..Len(hist.open) : hist.open[j].id = hist.decls[k].scope}

InitSymbols ==
    /\ state = HostStateWith(<< >>, << >>)
    /\ thread = Tiny_InitThread
    /\ hist = [open |-> << >>, nextId |-> 1, curFunc |-> 0, nfuncs |-> 0, decls |-> << >>,
               event |-> SymEvent("Tiny_CreateState", "", 0)]

Parsing == ~state.failed

\* name := ... : a local inside a function, else a global
SymDeclare ==
    /\ Parsing
    /\ Len(hist.decls) < MaxDecls
    /\ \E name \in VarNames :
          LET inFunc == state.currFunc # 0
              st == IF inFunc THEN DeclareLocal(state, name) ELSE DeclareGlobalVar(state, name)
              decl == IF inFunc THEN Decl("local", name, hist.curFunc, Last(hist.open).id)
                      ELSE Decl("global", name, 0, 0)
          IN  /\ state' = st
              /\ hist' = [hist EXCEPT
                            !.decls = IF st.failed THEN @ ELSE Append(@, decl),
                            !.event = SymEvent(IF inFunc THEN "DeclareLocal"
                                               ELSE "DeclareGlobalVar", name,
                                               VisibleLocals(name) # {})]
    /\ UNCHANGED thread

\* name :: 1 : the literal is registered, then the constant declared
SymDeclareConst ==
    /\ Parsing
    /\ Len(hist.decls) < MaxDecls
    /\ \E name \in VarNames :
          LET r == RegisterNumber(state.Numbers, 1)
              st == DeclareConst([state EXCEPT !.Numbers = r.pool], name, FALSE, r.index)
          IN  /\ state' = st
              /\ hist' = [hist EXCEPT
                            !.decls = IF st.failed THEN @ ELSE Append(@, Decl("const", name, 0, 0)),
                            !.event = SymEvent("DeclareConst", name, r.index)]
    /\ UNCHANGED thread

\* func name(args) up to the body
SymBeginProc ==
    /\ Parsing
    /\ Len(hist.decls) < MaxDecls
    /\ \E head \in ProcHeads :
          LET name == head.name
              args == head.args
              st == BeginProc(state, name, args)
              f == hist.nfuncs + 1
          IN  /\ state' = st
              /\ hist' = IF st.failed THEN [hist EXCEPT !.event = SymEvent("BeginProc", name, 0)]
                         ELSE [hist EXCEPT
                                 !.decls = Append(@, [kind |-> "function", name |-> name,
                                                      func |-> 0, scope |-> 0,
                                                      index |-> hist.nfuncs])
                                           \o [i \in 1..Len(args) |->
                                                 [kind |-> "arg", name |-> args[i], func |-> f,
                                                  scope |-> 0, index |-> i - 1 - Len(args)]],
                                 !.nfuncs = f, !.curFunc = f,
                                 !.open = Append(@, [id |-> 1, body |-> TRUE]),
                                 !.nextId = 2,
                                 !.event = SymEvent("BeginProc", name, 0)]
    /\ UNCHANGED thread

\* the end of a function's body
SymEndProc ==
    /\ Parsing
    /\ hist.open # << >> /\ Last(hist.open).body
    /\ state' = EndProc(state)
    /\ hist' = [hist EXCEPT !.open = Pop(@), !.curFunc = 0, !.nextId = 1,
                            !.event = SymEvent("CloseScope", "", 0)]
    /\ UNCHANGED thread

\* { , or the head of a for, or the body of a while
SymOpenScope ==
    /\ Parsing
    /\ Len(hist.open) < MaxDepth + (IF hist.curFunc # 0 THEN 1 ELSE 0)
    /\ hist.nextId <= MaxScopes
    /\ state' = OpenScope(state)
    /\ hist' = [hist EXCEPT !.open = Append(@, [id |-> IF hist.curFunc # 0 THEN hist.nextId
                                                       ELSE 0,
                                                 body |-> FALSE]),
                            !.nextId = IF hist.curFunc # 0 THEN @ + 1 ELSE @,
                            !.event = SymEvent("OpenScope", "", 0)]
    /\ UNCHANGED thread

\* } , or the end of a for or of a while body
SymCloseScope ==
    /\ Parsing
    /\ hist.open # << >> /\ ~Last(hist.open).body
    /\ state' = CloseScope(state)
    /\ hist' = [hist EXCEPT !.open = Pop(@), !.event = SymEvent("CloseScope", "", 0)]
    /\ UNCHANGED thread

\* a name used in an expression
SymReference ==
    /\ Parsing
    /\ \E name \in SymNames :
          hist' = [hist EXCEPT !.event = SymEvent("ReferenceVariable", name,
                                                  ReferenceVariable(state, name))]
    /\ UNCHANGED << state, thread >>

\* the host asks for the indices of a name
SymQuery ==
    /\ Parsing
    /\ \E name \in SymNames :
          hist' = [hist EXCEPT !.event =
                      SymEvent("Tiny_GetGlobalIndex", name,
                               [global |-> Tiny_GetGlobalIndex(state, name),
                                function |-> Tiny_GetFunctionIndex(state, name)])]
    /\ UNCHANGED << state, thread >>

NextSymbols ==
    \/ SymDeclare
    \/ SymDeclareConst
    \/ SymBeginProc
    \/ SymEndProc
    \/ SymOpenScope
    \/ SymCloseScope
    \/ SymReference
    \/ SymQuery

SpecSymbols == InitSymbols /\ [][NextSymbols]_vars

\* the least element of a set of positions, 0 for none
FirstOf(S) == IF S = {} THEN 0 ELSE CHOOSE k \in S : \A j \in S : k <= j

\* the declarations of name of the given kinds (arguments: of the current function)
Declared(kinds, name) ==
    {k \in 1..Len(hist.decls) :
        /\ hist.decls[k].kind \in kinds /\ hist.decls[k].name = name
        /\ hist.decls[k].kind = "arg" => (hist.curFunc # 0 /\ hist.decls[k].func = hist.curFunc)}

\* the declaration a use of name refers to: the first local in an open scope
\* of the current function, else the first argument, else the first global
\* or constant; 0 when there is none
LookupRule(name) ==
    IF VisibleLocals(name) # {} THEN FirstOf(VisibleLocals(name))
    ELSE IF Declared({"arg"}, name) # {} THEN FirstOf(Declared({"arg"}, name))
    ELSE FirstOf(Declared({"global", "const"}, name))

\* symbol sym is the one declaration k made
IsDeclaration(sym, k) ==
    IF k = 0 THEN sym = NoSymbol
    ELSE LET d == hist.decls[k]
         IN  /\ sym.name = d.name
             /\ sym.type = CASE d.kind \in {"local", "arg"} -> "LOCAL"
                             [] d.kind = "global" -> "GLOBAL"
                             [] d.kind = "const" -> "CONST"
             /\ d.kind # "const" => sym.index = d.index

\* C14: in a function, a use of a name never refers to a local whose scope
\* has closed; declaring a name no open scope of the function has declared
\* succeeds and appends a new local with an index of its own, also when a
\* closed sibling scope declared the name; closing a scope sets scopeEnded
\* on the locals of the closing depth, changes nothing else and removes no
\* local, so a local is scope-ended exactly when its scope has closed.
C14_ScopeClosing ==
    LET e == hist.event
        f == e.before.currFunc
        before == CurrLocals(e.before)
        after == IF f = 0 THEN << >> ELSE state.globalSymbols[f].locals
    IN  /\ (e.kind = "ReferenceVariable" /\ e.result.type = "LOCAL" /\ e.result.index >= 0) =>
              \E k \in VisibleLocals(e.name) : hist.decls[k].index = e.result.index
        /\ (e.kind = "DeclareLocal" /\ ~e.result) =>
              /\ ~state.failed
              /\ Len(after) = Len(before) + 1
              /\ SubSeq(after, 1, Len(before)) = before
              /\ Last(after).name = e.name /\ ~Last(after).scopeEnded
              /\ \A i \in 1..Len(before) : before[i].index # Last(after).index
        /\ e.kind = "CloseScope" =>
              /\ state.currScope = e.before.currScope - 1
              /\ Len(after) = Len(before)
              /\ \A i \in 1..Len(before) :
                    after[i] = IF before[i].scope = e.before.currScope
                               THEN [before[i] EXCEPT !.scopeEnded = TRUE] ELSE before[i]
        /\ (~state.failed /\ hist.curFunc # 0) =>
              \A k \in 1..Len(hist.decls) :
                 (hist.decls[k].kind = "local" /\ hist.decls[k].func = hist.curFunc) =>
                    (CurrLocals(state)[hist.decls[k].index + 1].scopeEnded
                       <=> ~\E j \in 1..Len(hist.open) : hist.open[j].id = hist.decls[k].scope)

\* a name declared again in a second block of a function, after the block
\* that declared it first has closed
C14_Witness ==
    /\ hist.event.kind = "DeclareLocal" /\ ~hist.event.result /\ ~state.failed
    /\ Len(CurrLocals(state)) = 2
    /\ CurrLocals(state)[1].name = hist.event.name /\ CurrLocals(state)[1].scopeEnded
    /\ CurrLocals(state)[2].index = 1 /\ ~CurrLocals(state)[2].scopeEnded

\* C15: ReferenceVariable(name) returns the symbol of the first local of
\* that name in an open scope of the current function, else of the current
\* function's argument of that name, else of the first global or constant
\* of that name, else no symbol; never a function or a foreign function.
C15_LookupOrder ==
    hist.event.kind = "ReferenceVariable" =>
        /\ IsDeclaration(hist.event.result, LookupRule(hist.event.name))
        /\ hist.event.result.type \notin {"FUNCTION", "FOREIGN_FUNCTION"}

\* a local found where an argument, a global and a function have its name
C15_Witness ==
    /\ hist.event.kind = "ReferenceVariable" /\ hist.event.name = "a"
    /\ hist.event.result.type = "LOCAL" /\ hist.event.result.index = 0
    /\ Declared({"arg"}, "a") # {} /\ Declared({"global"}, "a") # {}
    /\ Declared({"function"}, "a") # {}

\* C17: Tiny_GetGlobalIndex(name) is the index of the global variable of
\* that name and -1 when there is none, whatever constants, locals,
\* arguments and functions have the name; Tiny_GetFunctionIndex(name) is
\* the index of the first user function of that name and -1 when there is
\* none, whatever foreign functions have the name.
C17_Indices ==
    hist.event.kind = "Tiny_GetGlobalIndex" =>
        LET g == FirstOf(Declared({"global"}, hist.event.name))
            f == FirstOf(Declared({"function"}, hist.event.name))
        IN  /\ hist.event.result.global = IF g = 0 THEN -1 ELSE hist.decls[g].index
            /\ hist.event.result.function = IF f = 0 THEN -1 ELSE hist.decls[f].index

\* the indices of a name that only a constant has, where another name has a
\* global and a function
C17_Witness ==
    /\ hist.event.kind = "Tiny_GetGlobalIndex" /\ hist.event.name = "b"
    /\ Declared({"const"}, "b") # {}
    /\ Declared({"global"}, "a") # {} /\ Declared({"function"}, "a") # {}
    /\ hist.event.result = [global |-> -1, function |-> -1]

(***************************************************************************)
(* The literal pools.  Numbers and Strings belong to the process, not to a *)
(* State.  In SpecPools literals are registered one by one (hist.regs      *)
(* keeps every index handed out), sources are compiled, and the host       *)
(* creates further States.                                                 *)
(***************************************************************************)
MaxRegs == 3
MaxStates == 2
MaxPoolUnits == 2

PoolEvent(kind, result) ==
    [kind |-> kind, result |-> result, Numbers |-> state.Numbers, Strings |-> state.Strings]

InitPools ==
    /\ state = HostStateWith(<< >>, << >>)
    /\ thread = Tiny_InitThread
    /\ hist = [regs |-> {}, nregs |-> 0, created |-> 1, units |-> 0,
               event |-> [kind |-> "Tiny_CreateState", result |-> 0,
                          Numbers |-> << >>, Strings |-> << >>]]

\* a number or a string literal: RegisterNumber, RegisterString
PoolRegister ==
    /\ ~state.failed
    /\ hist.nregs < MaxRegs
    /\ \E pool \in {"Numbers", "Strings"}, value \in 1..3 :
          LET r == IF pool = "Numbers" THEN RegisterNumber(state.Numbers, value)
                   ELSE RegisterString(state.Strings, value)
          IN  /\ state' = IF pool = "Numbers" THEN [state EXCEPT !.Numbers = r.pool]
                          ELSE [state EXCEPT !.Strings = r.pool]
              /\ hist' = [hist EXCEPT
                            !.regs = @ \cup {[pool |-> pool, value |-> value,
                                              index |-> r.index]},
                            !.nregs = @ + 1,
                            !.event = PoolEvent(pool, r.index)]
    /\ UNCHANGED thread

\* a source compiled on the current State
PoolCompile ==
    /\ ~state.failed
    /\ hist.units < MaxPoolUnits
    /\ \E u \in 1..Len(Units) :
          /\ state' = Tiny_CompileString(state, Units[u].source)
          /\ hist' = [hist EXCEPT !.units = @ + 1,
                                  !.event = PoolEvent("Tiny_CompileString", 0)]
    /\ UNCHANGED thread

\* the host creates another State
PoolCreateState ==
    /\ ~state.failed
    /\ hist.created < MaxStates
    /\ state' = HostStateWith(state.Numbers, state.Strings)
    /\ hist' = [hist EXCEPT !.created = @ + 1, !.event = PoolEvent("Tiny_CreateState", 0)]
    /\ UNCHANGED thread

NextPools == PoolRegister \/ PoolCompile \/ PoolCreateState

SpecPools == InitPools /\ [][NextPools]_vars

\* the pool of that name
PoolOf(pool) == IF pool = "Numbers" THEN state.Numbers ELSE state.Strings

\* C19: over registrations, compilations and States, a literal registered
\* again gets the index it got the first time, two different literals of a
\* pool never get one index, the pool still holds at every index handed out
\* the literal it was handed out for, and every step leaves the entries the
\* pools had in place.
C19_PoolsAppendOnly ==
    /\ \A r1 \in hist.regs, r2 \in hist.regs :
          r1.pool = r2.pool => (r1.value = r2.value <=> r1.index = r2.index)
    /\ \A r \in hist.regs :
          /\ r.index >= 0 /\ r.index < Len(PoolOf(r.pool))
          /\ PoolOf(r.pool)[r.index + 1] = r.value
    /\ Len(state.Numbers) >= Len(hist.event.Numbers)
    /\ SubSeq(state.Numbers, 1, Len(hist.event.Numbers)) = hist.event.Numbers
    /\ Len(state.Strings) >= Len(hist.event.Strings)
    /\ SubSeq(state.Strings, 1, Len(hist.event.Strings)) = hist.event.Strings

\* a number registered again on a second State, after a compilation had
\* added numbers to the pool
C19_Witness ==
    /\ hist.event.kind = "Numbers" /\ hist.created = 2 /\ hist.units > 0
    /\ hist.nregs = 3 /\ Cardinality(hist.regs) = 2
    /\ hist.event.Numbers = state.Numbers
    /\ hist.event.result > 0 /\ hist.event.result < Len(state.Numbers) - 1

\* the operand of the GOTO or GOTOZ at pc
JumpTarget(program, pc) == BytesInt(SubSeq(program, pc + 2, pc + 5))

\* C20: after each successful compilation, first or later, every GOTO and
\* GOTOZ of the program holds the offset of an instruction of the program
\* (an offset in [0, program length) that decoding from 0 arrives at), every
\* instruction other than HALT, RETURN and RETURN_VALUE is followed by an
\* instruction, and a running thread's pc is the offset of an instruction.
C20_JumpTargets ==
    (~state.failed /\ Len(hist.units) > 0) =>
        LET pcs == InstructionPcs(state.program, 0)
        IN  /\ \A pc \in pcs :
                  LET op == state.program[pc + 1]
                  IN  /\ op \in {OP_GOTO, OP_GOTOZ} =>
                            /\ JumpTarget(state.program, pc) \in pcs
                            /\ JumpTarget(state.program, pc) >= 0
                            /\ JumpTarget(state.program, pc) < Len(state.program)
                      /\ op \notin {OP_HALT, OP_RETURN, OP_RETURN_VALUE} =>
                            pc + OpSize(op) \in pcs
            /\ (thread.status = "ok" /\ thread.pc >= 0) => thread.pc \in pcs

\* a thread about to jump back to the condition of a loop that a third
\* compilation appended after an if and a function
C20_Witness ==
    /\ hist.units = << "decl", "pick", "clip" >>
    /\ thread.status = "ok" /\ thread.pc >= 0
    /\ OpAt(thread) = OP_GOTO
    /\ JumpTarget(state.program, thread.pc) < thread.pc

\* the symbols of the given type with the given index
SymbolsAt(type, index) ==
    {i \in 1..Len(state.globalSymbols) :
        state.globalSymbols[i].type = type /\ state.globalSymbols[i].index = index}

\* pc is the entry of a function's code: it follows the GOTO that jumps over
\* the function, and lies before that GOTO's target
FunctionEntry(program, pc) ==
    /\ pc >= 5 /\ pc - 5 \in InstructionPcs(program, 0)
    /\ program[pc - 4] = OP_GOTO
    /\ JumpTarget(program, pc - 5) > pc
    /\ program[JumpTarget(program, pc - 5)] = OP_RETURN

\* C21: after each successful compilation every CALL names a function index
\* in [0, numFunctions) whose functionPcs entry is the entry of a function's
\* code, entries of different functions differ, every CALLF names an index
\* in [0, numForeignFunctions), and foreignFunctions holds at each index the
\* callee that Tiny_BindFunction was given for the symbol of that index; a
\* run of the program gives the result of the functions the source calls
\* by name, also where a call precedes the definition.
C21_CallOperands ==
    Compiled1(1) =>
        LET pcs == InstructionPcs(state.program, 0)
        IN  /\ \A pc \in pcs :
                  LET op == state.program[pc + 1]
                      f == BytesInt(SubSeq(state.program, pc + 6, pc + 9))
                  IN  /\ op = OP_CALL =>
                            /\ f >= 0 /\ f < state.numFunctions
                            /\ SymbolsAt("FUNCTION", f) # {}
                            /\ FunctionEntry(state.program, state.functionPcs[f + 1])
                      /\ op = OP_CALLF =>
                            /\ f >= 0 /\ f < state.numForeignFunctions
                            /\ \A i \in SymbolsAt("FOREIGN_FUNCTION", f) :
                                  state.foreignFunctions[f + 1] = state.globalSymbols[i].callee
                            /\ SymbolsAt("FOREIGN_FUNCTION", f) # {}
            /\ Len(state.functionPcs) = state.numFunctions
            /\ \A f \in 1..state.numFunctions, g \in 1..state.numFunctions :
                  f # g => state.functionPcs[f] # state.functionPcs[g]
            /\ Len(state.foreignFunctions) = state.numForeignFunctions
            /\ (hist.starts > 0 /\ thread.status = "ok" /\ thread.pc < 0
                  /\ Tiny_GetGlobalIndex(state, "a") >= 0) =>
                    Tiny_GetGlobal(thread, Tiny_GetGlobalIndex(state, "a")).value
                        = Tiny_NewNumber(UnitEffects(hist.units, 1, 0))

\* a foreign call and a call that precedes its function's definition, in a
\* program of three compilations, run to the HALT
C21_Witness ==
    /\ hist.units = << "decl", "fwd", "sub" >>
    /\ hist.starts > 0 /\ thread.status = "ok" /\ thread.pc < 0
    /\ thread.globalVars[1] = Tiny_NewNumber(1)
    /\ \E pc \in InstructionPcs(state.program, 0) : state.program[pc + 1] = OP_CALLF

(***************************************************************************)
(* The collection threshold in a loop that keeps one string alive.         *)
(***************************************************************************)
MaxLoops == 11

\* s := 0
\* i := 0
\* while i < n { s = mkstr()  i += 1 }
ProgLoop(n) ==
    LET s == GlobalSym("s", 0)
        i == GlobalSym("i", 1)
    IN  [name |-> "loop", prog |-> <<
            Bin(":=", Id(s), Num(0)),
            Bin(":=", Id(i), Num(0)),
            While(Bin("<", Id(i), Num(1)),
                  Block(<< Bin("=", Id(s), Call("mkstr", << >>)),
                           Bin("+=", Id(i), Num(2)) >>)) >>,
         globalSymbols |-> HostBindings \o << s, i >>,
         numGlobalVars |-> 2, numFunctions |-> 0, numForeignFunctions |-> 6,
         Numbers |-> << 0, n, 1 >>, Strings |-> << >>,
         hostCalls |-> {}]

InitLoop ==
    /\ \E n \in 2..MaxLoops : state = Compiled(ProgLoop(n))
    /\ hist = [calls |-> << >>, hostCalls |-> 0, starts |-> 0,
               source |-> "compiler", program |-> "loop", choices |-> {},
               event |-> Event("Tiny_InitThread", Tiny_InitThread,
                               Tiny_InitThread, FALSE, NoCall)]
    /\ thread = Tiny_InitThread

NextLoop ==
    \/ StartThread
    \/ HostExecuteCycle

SpecLoop == InitLoop /\ [][NextLoop]_vars

\* the loop has run to its HALT
LoopDone == hist.program = "loop" /\ hist.starts > 0 /\ thread.pc = -1 /\ thread.status = "ok"

\* the strings the loop allocated: one per iteration
LoopAllocated == Len(thread.heap)

MaxOps == 3

AssignTokens == {"=", ":=", "::", "+=", "-=", "*=", "/=", "%=", "&=", "|="}

BinaryTokens == AssignTokens \cup {"and", "or", "<", ">", "<=", ">=", "==", "!=",
                             "+", "-", "*", "/", "%", "&", "|"}

Op(op) == [type |-> "OP", op |-> op]

EndOfSource == [type |-> "EOF"]

\* CurTok when pos tokens were consumed
CurTok(toks, pos) == IF pos < Len(toks) THEN toks[pos + 1] ELSE EndOfSource

\* GetTokenPrec: -1 for a token that is no binary operator
GetTokenPrec(tok) ==
    IF tok.type # "OP" THEN -1
    ELSE CASE tok.op \in {"*", "/", "%", "&", "|"} -> 5
           [] tok.op \in {"+", "-"} -> 4
           [] tok.op \in {"<=", ">=", "==", "!=", "<", ">"} -> 3
           [] tok.op \in {"and", "or"} -> 2
           [] tok.op \in {"+=", "-=", "*=", "/=", "%=", "&=", "|=", "::", ":=", "="} -> 1
           [] OTHER -> -1

\* ParseFactor on an operand token; any other token is "Unexpected token"
ParseFactorAt(st, toks, pos) ==
    LET tok == CurTok(toks, pos)
    IN  IF tok.type \in {"ID", "NUM"}
        THEN Bind(ParseExpr(st, tok),
                  LAMBDA p : [st |-> p.st, exp |-> p.exp, pos |-> pos + 1])
        ELSE [st |-> ReportError(st), exp |-> NoExpr, pos |-> pos + 1]

\* ParseBinRhs with "prec <= nextPrec" for operators of the assignment family
RECURSIVE ParseBinRhs_AssignRight(_, _, _, _, _)
ParseBinRhs_AssignRight(st, toks, pos, exprPrec, lhs) ==
    LET prec == GetTokenPrec(CurTok(toks, pos))
        binOp == CurTok(toks, pos).op
    IN  IF prec < exprPrec THEN [st |-> st, exp |-> lhs, pos |-> pos]
        ELSE LET st1 == IF binOp # ":=" THEN st
                        ELSE IF lhs.type # "ID" THEN ReportError(st)
                        ELSE IF st.currFunc # 0 THEN DeclareLocal(st, lhs.name)
                        ELSE DeclareGlobalVar(st, lhs.name)
                 lhs1 == IF binOp = ":=" /\ lhs.type = "ID" /\ ~st1.failed
                         THEN [lhs EXCEPT !.sym = IF st1.currFunc # 0
                                                  THEN CurrLocals(st1)[Len(CurrLocals(st1))]
                                                  ELSE st1.globalSymbols[Len(st1.globalSymbols)]]
                         ELSE lhs
             IN  Bind(ParseFactorAt(st1, toks, pos + 1),
                      LAMBDA f :
                        Bind(IF prec < GetTokenPrec(CurTok(toks, f.pos))
                                \/ (prec = 1 /\ GetTokenPrec(CurTok(toks, f.pos)) = 1)
                             THEN ParseBinRhs_AssignRight(f.st, toks, f.pos,
                                                          IF prec = 1 THEN 1 ELSE prec + 1,
                                                          f.exp)
                             ELSE f,
                             LAMBDA r :
                                LET st2 == IF binOp # "::" THEN r.st
                                           ELSE IF lhs1.type # "ID" THEN ReportError(r.st)
                                           ELSE IF r.exp.type = "NUM"
                                           THEN DeclareConst(r.st, lhs1.name, FALSE, r.exp.number)
                                           ELSE IF r.exp.type = "STRING"
                                           THEN DeclareConst(r.st, lhs1.name, TRUE, r.exp.string)
                                           ELSE ReportError(r.st)
                                IN  ParseBinRhs_AssignRight(st2, toks, r.pos, exprPrec,
                                        [type |-> "BINARY", op |-> binOp, lhs |-> lhs1,
                                         rhs |-> r.exp])))

\* ParseBinRhs: while the current token is an operator of precedence >=
\* exprPrec, take it, parse its right operand (climbing with prec + 1 when
\* the next operator binds tighter) and make lhs the new binary node
RECURSIVE ParseBinRhs(_, _, _, _, _)
ParseBinRhs(st, toks, pos, exprPrec, lhs) ==
    LET prec == GetTokenPrec(CurTok(toks, pos))
        binOp == CurTok(toks, pos).op
    IN  IF prec < exprPrec THEN [st |-> st, exp |-> lhs, pos |-> pos]
        ELSE LET st1 == IF binOp # ":=" THEN st
                        ELSE IF lhs.type # "ID" THEN ReportError(st)
                        ELSE IF st.currFunc # 0 THEN DeclareLocal(st, lhs.name)
                        ELSE DeclareGlobalVar(st, lhs.name)
                 lhs1 == IF binOp = ":=" /\ lhs.type = "ID" /\ ~st1.failed
                         THEN [lhs EXCEPT !.sym = IF st1.currFunc # 0
                                                  THEN CurrLocals(st1)[Len(CurrLocals(st1))]
                                                  ELSE st1.globalSymbols[Len(st1.globalSymbols)]]
                         ELSE lhs
             IN  Bind(ParseFactorAt(st1, toks, pos + 1),
                      LAMBDA f :
                        Bind(IF prec < GetTokenPrec(CurTok(toks, f.pos))
                             THEN ParseBinRhs(f.st, toks, f.pos, prec + 1, f.exp)
                             ELSE f,
                             LAMBDA r :
                                LET st2 == IF binOp # "::" THEN r.st
                                           ELSE IF lhs1.type # "ID" THEN ReportError(r.st)
                                           ELSE IF r.exp.type = "NUM"
                                           THEN DeclareConst(r.st, lhs1.name, FALSE, r.exp.number)
                                           ELSE IF r.exp.type = "STRING"
                                           THEN DeclareConst(r.st, lhs1.name, TRUE, r.exp.string)
                                           ELSE ReportError(r.st)
                                IN  ParseBinRhs(st2, toks, r.pos, exprPrec,
                                        [type |-> "BINARY", op |-> binOp, lhs |-> lhs1,
                                         rhs |-> r.exp])))

\* ParseExpr on the token stream: a factor, then the climb from precedence 0
ParseExprAt(st, toks, pos) ==
    Bind(ParseFactorAt(st, toks, pos),
         LAMBDA f : ParseBinRhs(f.st, toks, f.pos, 0, f.exp))

\* the operand at position k of a source: an identifier of its own or a number
Operands(k) == {Ident(<< "a", "b", "c", "d", "e" >>[k]), Number(k)}

\* the token streams operand (operator operand)*, with up to MaxOps operators
RECURSIVE Sources(_)
Sources(n) ==
    IF n = 0 THEN {<< x >> : x \in Operands(1)}
    ELSE {s \o << Op(o), x >> : s \in Sources(n - 1), o \in BinaryTokens, x \in Operands(n + 1)}

InitParse ==
    /\ state = HostState
    /\ thread = Tiny_InitThread
    /\ \E n \in 1..MaxOps : \E toks \in Sources(n) :
            hist = [source |-> "tokens", tokens |-> toks, parsed |-> FALSE,
                    exp |-> NoExpr, pos |-> 0]

\* ParseExpr on the source
ParseTokens ==
    /\ hist.source = "tokens"
    /\ ~hist.parsed
    /\ LET r == ParseExprAt(state, hist.tokens, 0)
       IN  /\ state' = r.st
           /\ hist' = [hist EXCEPT !.parsed = TRUE, !.exp = r.exp, !.pos = r.pos]
    /\ UNCHANGED thread

NextParse == ParseTokens

SpecParse == InitParse /\ [][NextParse]_vars

\* the tree without the symbols and pool indices: what the source spells
RECURSIVE Shape(_, _)
Shape(st, exp) ==
    CASE exp.type = "ID" -> Ident(exp.name)
      [] exp.type = "NUM" -> Number(st.Numbers[exp.number + 1])
      [] exp.type = "BINARY" -> [type |-> "BINARY", op |-> exp.op,
                                 lhs |-> Shape(st, exp.lhs), rhs |-> Shape(st, exp.rhs)]
      [] OTHER -> exp

OperatorsOf(toks) == {k \in 1..Len(toks) : toks[k].type = "OP"}

LowestPrec(toks) ==
    CHOOSE p \in 1..5 : /\ \E k \in OperatorsOf(toks) : GetTokenPrec(toks[k]) = p
                        /\ \A k \in OperatorsOf(toks) : GetTokenPrec(toks[k]) >= p

LastOf(K) == CHOOSE k \in K : \A j \in K : j <= k
FirstOp(K) == CHOOSE k \in K : \A j \in K : j >= k

\* the tree of operand (operator operand)*: split at the last of the
\* operators of the lowest precedence (they group to the left), or at the
\* first of them when assignRight and they are of the assignment family
RECURSIVE TreeOf(_, _)
TreeOf(toks, assignRight) ==
    IF Len(toks) = 1 THEN toks[1]
    ELSE LET p == LowestPrec(toks)
             K == {k \in OperatorsOf(toks) : GetTokenPrec(toks[k]) = p}
             k == IF p = 1 /\ assignRight THEN FirstOp(K) ELSE LastOf(K)
         IN  [type |-> "BINARY", op |-> toks[k].op,
              lhs |-> TreeOf(SubSeq(toks, 1, k - 1), assignRight),
              rhs |-> TreeOf(SubSeq(toks, k + 1, Len(toks)), assignRight)]

\* every binary operator groups to the left
LeftTree(toks) == TreeOf(toks, FALSE)

\* the assignment family groups to the right, the others to the left
AssignRightTree(toks) == TreeOf(toks, TRUE)

RECURSIVE Nodes(_)
Nodes(tree) ==
    IF tree.type = "BINARY" THEN {tree} \cup Nodes(tree.lhs) \cup Nodes(tree.rhs) ELSE {tree}

\* a := whose left operand is no identifier, a :: whose left operand is no
\* identifier or whose right operand is no literal
BadDeclaration(tree) ==
    \E n \in Nodes(tree) :
        /\ n.type = "BINARY"
        /\ \/ n.op = ":=" /\ n.lhs.type # "ID"
           \/ n.op = "::" /\ (n.lhs.type # "ID" \/ n.rhs.type # "NUM")

\* C23 (amended): ParseExpr consumes the whole expression and builds a
\* left-associative tree for every binary operator, the assignment family
\* included (a = b = c parses as (a = b) = c), with higher-precedence
\* operators binding tighter (1 + 2 * 3 parses as 1 + (2 * 3)); it fails
\* exactly when the tree holds a := or :: whose left operand is not an
\* identifier, or a :: whose right operand is not a literal, so that a
\* chain of declarations does not parse.
C23_LeftAssociative ==
    (hist.source = "tokens" /\ hist.parsed) =>
        /\ hist.pos = Len(hist.tokens)
        /\ state.failed <=> BadDeclaration(LeftTree(hist.tokens))
        /\ ~state.failed => Shape(state, hist.exp) = LeftTree(hist.tokens)

\* a = b += c * 4 parsed: ((a = b) += (c * 4))
C23_Witness ==
    /\ hist.source = "tokens" /\ hist.parsed /\ ~state.failed
    /\ hist.tokens = << Ident("a"), Op("="), Ident("b"), Op("+="), Ident("c"), Op("*"), Number(4) >>
    /\ Shape(state, hist.exp).lhs = [type |-> "BINARY", op |-> "=", lhs |-> Ident("a"),
                                     rhs |-> Ident("b")]
    /\ Shape(state, hist.exp).rhs.op = "*"

\* C23 as stated: the assignment family groups to the right (a = b = c is
\* a = (b = c)), the other binary operators to the left, higher precedence
\* binding tighter
C23_Original ==
    (hist.source = "tokens" /\ hist.parsed /\ ~state.failed) =>
        Shape(state, hist.exp) = AssignRightTree(hist.tokens)

(***************************************************************************)
(* The source handles of a compilation.  io is the process's stdio: the    *)
(* streams that are open, how many were opened, and state->curFile (0 is   *)
(* NULL).  exit closes every open stream.                                  *)
(***************************************************************************)
MaxCompiles == 2

NoFile == 0

ProcessIo == [open |-> {}, opened |-> 0, curFile |-> NoFile]

\* tmpfile / fopen: a new stream; state->curFile = file
OpenSource(io) ==
    [io EXCEPT !.opened = @ + 1, !.open = @ \cup {io.opened + 1}, !.curFile = io.opened + 1]

\* exit(1) at the end of ReportError: the C library closes every open stream
ExitProcess(io) == [io EXCEPT !.open = {}]

\* Tiny_CompileString with its stream: tmpfile, ParseProgram and
\* CompileState (st1 is the State they leave), fclose, curFile = NULL
CompileStringIo(io, st1) ==
    LET io1 == OpenSource(io)
    IN  IF st1.failed THEN [io |-> ExitProcess(io1), st |-> st1]
        ELSE [io |-> [io1 EXCEPT !.open = @ \ {io1.curFile}, !.curFile = NoFile],
              st |-> st1]

\* Tiny_CompileFile: fopen (exit when it fails), ParseProgram and
\* CompileState (st1 is the State they leave), curFile = NULL; there is no
\* fclose
Tiny_CompileFile(io, st, file, st1) ==
    IF ~file.exists THEN [io |-> ExitProcess(io), st |-> ReportError(st)]
    ELSE LET io1 == OpenSource(io)
         IN  IF st1.failed THEN [io |-> ExitProcess(io1), st |-> st1]
             ELSE [io |-> [io1 EXCEPT !.curFile = NoFile], st |-> st1]

InitFiles ==
    /\ state = HostState
    /\ thread = Tiny_InitThread
    /\ hist = [source |-> "files", io |-> ProcessIo, compiles |-> << >>]

\* the host compiles one of the sources: from memory, or from a file that
\* holds it, or from a file that does not exist
CompileSource ==
    /\ hist.source = "files"
    /\ ~state.failed
    /\ Len(hist.compiles) < MaxCompiles
    /\ \E u \in 1..Len(Units), api \in {"Tiny_CompileString", "Tiny_CompileFile"},
          exists \in BOOLEAN :
          /\ api = "Tiny_CompileString" => exists
          /\ LET r == Bind(Tiny_CompileString(state, Units[u].source),
                           LAMBDA st1 :
                              IF api = "Tiny_CompileString"
                              THEN CompileStringIo(hist.io, st1)
                              ELSE Tiny_CompileFile(hist.io, state,
                                                    [exists |-> exists,
                                                     source |-> Units[u].source], st1))
             IN  /\ state' = r.st
                 /\ hist' = [hist EXCEPT !.io = r.io,
                               !.compiles = Append(@, [api |-> api,
                                                       unit |-> Units[u].name,
                                                       exists |-> exists,
                                                       handle |-> hist.io.opened + 1])]
    /\ UNCHANGED thread

NextFiles == CompileSource

SpecFiles == InitFiles /\ [][NextFiles]_vars

\* the handles of the compilations made so far that opened one
HandlesOf(api) ==
    {hist.compiles[k].handle : k \in {j \in 1..Len(hist.compiles) :
                                        /\ hist.compiles[j].api = api
                                        /\ hist.compiles[j].exists}}

\* C24 as stated: after Tiny_CompileString and after Tiny_CompileFile, on
\* success and on error, the source handle opened for the compilation is
\* closed, and the State holds no source handle once the compilation has
\* returned.
C24_HandlesReleased ==
    hist.source = "files" =>
        /\ hist.io.open = {}
        /\ ~state.failed => hist.io.curFile = NoFile

\* what the code does: the streams left open are exactly those of the
\* Tiny_CompileFile calls that returned
C24_FileHandlesLeak ==
    hist.source = "files" =>
        /\ ~state.failed => /\ hist.io.open = HandlesOf("Tiny_CompileFile")
                            /\ hist.io.curFile = NoFile
        /\ state.failed => hist.io.open = {}

\* a Tiny_CompileFile returned and its stream is still open
C24_Witness ==
    /\ hist.source = "files"
    /\ ~state.failed
    /\ Len(hist.compiles) = 2
    /\ hist.compiles[1].api = "Tiny_CompileFile"
    /\ hist.compiles[2].api = "Tiny_CompileString"
    /\ hist.io.open = {1}

(***************************************************************************)
(* ReportErrorV, one step per getc.  The source is a sequence of           *)
(* characters ('x' or '\n'); getc past its end gives EOF.  out is what was *)
(* written to stderr, kept up to MaxOut items.                             *)
(***************************************************************************)
MaxChars == 6
MaxOut == 16

NewLine == 10
LetterX == 120
EndOfFile == -1

Char(c) == [kind |-> "char", val |-> c]
LineNumber(n, arrow) == [kind |-> IF arrow THEN "arrow" ELSE "number", val |-> n]
Message(line) == [kind |-> "message", val |-> line]

RECURSIVE Texts(_)
\* the sources of n characters
Texts(n) ==
    IF n = 0 THEN {<< >>}
    ELSE {Append(s, c) : s \in Texts(n - 1), c \in {LetterX, NewLine}}

NewLines(text) == Cardinality({k \in 1..Len(text) : text[k] = NewLine})

\* fputc / fprintf to stderr
Put(out, item) == IF Len(out) < MaxOut THEN Append(out, item) ELSE out

\* getc(f): the character at pos, or EOF
Getc(text, pos) == IF pos < Len(text) THEN text[pos + 1] ELSE EndOfFile

\* bool putLine = abs(line - (i + 1)) < 3
PutLine(line, i) == line - (i + 1) < 3 /\ (i + 1) - line < 3

\* ReportErrorV entered with the line of the error: rewind, fputc('\n')
InitReport ==
    /\ state = HostState
    /\ thread = Tiny_InitThread
    /\ \E n \in 0..MaxChars : \E text \in Texts(n) : \E line \in 1..(NewLines(text) + 1) :
            hist = [source |-> "report", text |-> text, line |-> line, pos |-> 0,
                    i |-> 0, last |-> 0, at |-> "for", out |-> << Char(NewLine) >>]

Reporting == hist.source = "report"

\* one turn of the for loop starts: last = getc(f), the line number is printed
ReportLineStart ==
    /\ Reporting
    /\ hist.at = "for"
    /\ hist.i < hist.line + 4
    /\ hist' = [hist EXCEPT
                  !.last = Getc(hist.text, hist.pos),
                  !.pos = IF hist.pos < Len(hist.text) THEN @ + 1 ELSE @,
                  !.out = IF PutLine(hist.line, hist.i)
                          THEN Put(@, LineNumber(hist.i + 1, hist.i = hist.line - 1))
                          ELSE @,
                  !.at = "while"]
    /\ UNCHANGED << state, thread >>

\* the body of while (last != '\n'): print last, last = getc(f)
ReportChar ==
    /\ Reporting
    /\ hist.at = "while"
    /\ hist.last # NewLine
    /\ hist' = [hist EXCEPT
                  !.out = IF PutLine(hist.line, hist.i) THEN Put(@, Char(hist.last)) ELSE @,
                  !.last = Getc(hist.text, hist.pos),
                  !.pos = IF hist.pos < Len(hist.text) THEN @ + 1 ELSE @]
    /\ UNCHANGED << state, thread >>

\* the while loop ends at a '\n': the line is closed, ++i
ReportLineEnd ==
    /\ Reporting
    /\ hist.at = "while"
    /\ hist.last = NewLine
    /\ hist' = [hist EXCEPT
                  !.out = IF PutLine(hist.line, hist.i) THEN Put(@, Char(NewLine)) ELSE @,
                  !.i = @ + 1,
                  !.at = "for"]
    /\ UNCHANGED << state, thread >>

\* after the for loop: '\n', "fileName(line): message", '\n', and exit(1)
ReportExit ==
    /\ Reporting
    /\ hist.at = "for"
    /\ ~(hist.i < hist.line + 4)
    /\ hist' = [hist EXCEPT
                  !.out = Put(Put(Put(@, Char(NewLine)), Message(hist.line)), Char(NewLine)),
                  !.at = "exit"]
    /\ state' = ReportError(state)
    /\ UNCHANGED thread

NextReport ==
    \/ ReportLineStart
    \/ ReportChar
    \/ ReportLineEnd
    \/ ReportExit

\* the process keeps running while it can take a step that changes something
SpecReport == InitReport /\ [][NextReport]_vars /\ WF_vars(NextReport)

\* the characters of the k-th line of text (k >= 1), without its '\n'
RECURSIVE LineOf(_, _)
LineOf(text, k) ==
    LET ends == {j \in 1..Len(text) : text[j] = NewLine}
        stop == IF ends = {} THEN Len(text) + 1 ELSE CHOOSE j \in ends : \A e \in ends : j <= e
    IN  IF k = 1 THEN SubSeq(text, 1, stop - 1)
        ELSE IF stop > Len(text) THEN << >>
        ELSE LineOf(SubSeq(text, stop + 1, Len(text)), k - 1)

\* the lines of text: those a '\n' ends, and the rest if there is one
LineCount(text) ==
    NewLines(text) + (IF Len(text) > 0 /\ text[Len(text)] # NewLine THEN 1 ELSE 0)

RECURSIVE PrintedLines(_, _, _)
\* the lines n, n + 1, ... last of text as the report prints them
PrintedLines(text, line, n) ==
    IF n > line + 2 \/ n > LineCount(text) THEN << >>
    ELSE << LineNumber(n, n = line) >> \o [j \in 1..Len(LineOf(text, n)) |-> Char(LineOf(text, n)[j])]
         \o << Char(NewLine) >> \o PrintedLines(text, line, n + 1)

\* a newline, the lines within two of line that exist, a newline, the message
ExpectedReport(text, line) ==
    << Char(NewLine) >> \o PrintedLines(text, line, IF line > 2 THEN line - 2 ELSE 1)
    \o << Char(NewLine), Message(line), Char(NewLine) >>

\* C25 as stated: reporting a fatal error at line L completes for every
\* source: it prints a newline, the source lines within two of L that exist
\* (1-based numbers, an arrow on L), then filename(L): message, and ends the
\* process, also for a source of fewer than L + 2 lines or without a
\* trailing newline.
C25_ReportCompletes ==
    /\ <>(Reporting /\ hist.at = "exit")
    /\ []((Reporting /\ hist.at = "exit") => hist.out = ExpectedReport(hist.text, hist.line))

\* what the code does: the report ends, with the stated output, exactly for
\* a source with at least L + 4 newline characters; with fewer, it reads
\* EOF in the while loop, which only a '\n' ends
C25_ReportNeedsLines ==
    Reporting =>
        /\ hist.at = "exit" => /\ NewLines(hist.text) >= hist.line + 4
                               /\ hist.out = ExpectedReport(hist.text, hist.line)
        /\ (hist.at = "while" /\ hist.last = EndOfFile) =>
                /\ NewLines(hist.text) < hist.line + 4
                /\ Getc(hist.text, hist.pos) = EndOfFile

\* the report of an error in line 1 of "x" is in its while loop at EOF
C25_Witness ==
    /\ Reporting
    /\ hist.text = << LetterX >>
    /\ hist.at = "while"
    /\ hist.last = EndOfFile
    /\ Len(hist.out) = MaxOut

(***************************************************************************)
(* Calls with m arguments of a function declared with n parameters.        *)
(***************************************************************************)
MaxParams == 2
MaxArgs == 3

ArityParams == << "p", "q", "s" >>
ArityArgs == << 10, 20, 40, 80 >>

\* func f(p, q) { return p - q }     (n = 2; return p for n = 1, return 0 for n = 0)
\* r := f(10, 20, 40)                (m = 3; r := 7 + f(...) when nested)
AritySource(n, m, nested) ==
    LET body == IF n = 0 THEN Number(0)
                ELSE IF n = 1 THEN Ident("p")
                ELSE Bin("-", Ident("p"), Ident(ArityParams[n]))
        call == Call("f", [k \in 1..m |-> Number(ArityArgs[k])])
    IN  << Func("f", SubSeq(ArityParams, 1, n), Block(<< Ret(body) >>)),
           Bin(":=", Ident("r"), IF nested THEN Bin("+", Number(7), call) ELSE call) >>

\* what f returns when its first and last parameters hold x and y
ArityResult(n, x, y) == IF n = 0 THEN 0 ELSE IF n = 1 THEN x ELSE x - y

InitArity ==
    /\ state = HostState
    /\ thread = Tiny_InitThread
    /\ \E n \in 0..MaxParams, m \in 0..MaxArgs, nested \in BOOLEAN :
          hist = [calls |-> << >>, hostCalls |-> 0, starts |-> 0,
                  source |-> "arity", program |-> "arity", choices |-> {},
                  n |-> n, m |-> m, nested |-> nested, compiled |-> FALSE,
                  event |-> Event("Tiny_InitThread", Tiny_InitThread, Tiny_InitThread,
                                  FALSE, NoCall)]

\* Tiny_CompileString of the source
ArityCompile ==
    /\ hist.source = "arity"
    /\ ~hist.compiled
    /\ state' = Tiny_CompileString(state, AritySource(hist.n, hist.m, hist.nested))
    /\ thread' = IF state'.failed THEN Fatal(thread, "exit") ELSE thread
    /\ hist' = [hist EXCEPT !.compiled = TRUE]

ArityStart == hist.source = "arity" /\ hist.compiled /\ StartThread

ArityCycle == hist.source = "arity" /\ hist.compiled /\ HostExecuteCycle

NextArity ==
    \/ ArityCompile
    \/ ArityStart
    \/ ArityCycle

SpecArity == InitArity /\ [][NextArity]_vars

\* the last operation was a cycle that executed the instruction op
Executed(op) == CycleEvent /\ hist.event.result /\ hist.event.op = op

\* the operand of the instruction the last cycle executed
Operand == ReadInteger(hist.event.before.pc + 1)

\* nargs of the frame on top of the indirection stack of t
FrameArgs(t) == t.indirStack[t.indirStackSize - 2]

\* the stack slots of the arguments the call of the current frame pushed
ArgumentSlots(t) == (t.fp - FrameArgs(t))..(t.fp - 1)

\* the stack slots where the code of f reads its n parameters
ParameterSlots(t, n) == {t.fp - n + k : k \in 0..(n - 1)}

\* the last cycle read a parameter (GETLOCAL with a negative operand)
ParameterRead == Executed(OP_GETLOCAL) /\ Operand < 0

\* the value of the argument that parameter k (from 0) of n reads when m >= n
\* arguments were pushed: argument k + (m - n)
ArgumentRead(n, m, k) == ArityArgs[k + (m - n) + 1]

\* C26 (amended): a call with m arguments of a function declared with n
\* parameters compiles for every m and n, and its CALL carries nargs = m;
\* parameter k is read at stack[fp - n + k].  Every parameter access falls
\* inside the pushed arguments stack[fp - nargs .. fp) exactly when m >= n;
\* parameter k reads argument k exactly when m = n: with m > n it reads
\* argument k + (m - n), with m < n the parameters k < n - m are read from
\* the slots below the pushed arguments (outside the stack when fp < n).
C26_ArgumentCountUnchecked ==
    LET e == hist.event
        n == hist.n
        m == hist.m
    IN  (hist.source = "arity" /\ hist.compiled) =>
            /\ ~state.failed
            /\ \E pc \in InstructionPcs(state.program, 0) : state.program[pc + 1] = OP_CALL
            /\ \A pc \in InstructionPcs(state.program, 0) :
                    state.program[pc + 1] = OP_CALL => ReadInteger(pc + 1) = m
            /\ ParameterRead =>
                    LET k == Operand + n
                        slot == e.before.fp + Operand
                    IN  /\ k \in 0..(n - 1)
                        /\ FrameArgs(e.before) = m
                        /\ slot \in ArgumentSlots(e.before) <=> k >= n - m
                        /\ slot < 0 <=> thread.status = "ub"
                        /\ thread.status = "ok" =>
                                /\ Top(thread) = e.before.stack[slot + 1]
                                /\ m >= n => Top(thread) = Tiny_NewNumber(ArgumentRead(n, m, k))
            /\ (Executed(OP_RETURN_VALUE) /\ thread.status = "ok") =>
                    /\ ParameterSlots(e.before, n) \subseteq ArgumentSlots(e.before) <=> m >= n
                    /\ m >= n /\ n > 0 =>
                            thread.retVal = Tiny_NewNumber(ArityResult(n, ArgumentRead(n, m, 0),
                                                                       ArgumentRead(n, m, n - 1)))
                    /\ thread.sp = e.before.fp - m

\* f(10, 20, 40) with f declared with two parameters returned 20 - 40
C26_Witness ==
    /\ hist.source = "arity" /\ hist.n = 2 /\ hist.m = 3 /\ hist.nested
    /\ Executed(OP_RETURN_VALUE)
    /\ thread.status = "ok"
    /\ thread.retVal = Tiny_NewNumber(-20)
    /\ ParameterSlots(hist.event.before, 2) \subseteq ArgumentSlots(hist.event.before)

\* C26 as stated: the call compiles for every m and n with nargs = m, and
\* only when m = n does every parameter access fall inside the pushed
\* arguments stack[fp - nargs .. fp)
C26_Original ==
    (hist.source = "arity" /\ hist.compiled) =>
        /\ ~state.failed
        /\ \A pc \in InstructionPcs(state.program, 0) :
                state.program[pc + 1] = OP_CALL => ReadInteger(pc + 1) = hist.m
        /\ (Executed(OP_RETURN_VALUE) /\ thread.status = "ok" /\ hist.n > 0) =>
                (ParameterSlots(hist.event.before, hist.n) \subseteq ArgumentSlots(hist.event.before)
                    <=> hist.m = hist.n)

(***************************************************************************)
(* Natives whose payloads refer to one another.  The host allocates        *)
(* natives until a collection is due, stores references between the first  *)
(* MaxGraph of them, may call Tiny_ProtectFromGC itself, makes one of them *)
(* a root (a global), and runs the thread.                                 *)
(***************************************************************************)
MaxGraph == 3
MaxAttach == 3

\* a := 0  b := 0
MarkSource == << Bin(":=", Ident("a"), Number(0)), Bin(":=", Ident("b"), Number(0)) >>

\* a prop without callbacks
PlainProp == [protectFromGC |-> FALSE, finalize |-> FALSE]

InitMark ==
    /\ state = Tiny_CompileString(HostState, MarkSource)
    /\ thread = Tiny_InitThread
    /\ hist = [calls |-> << >>, hostCalls |-> 0, starts |-> 0,
               source |-> "mark", program |-> "mark", choices |-> {},
               attaches |-> 0, protects |-> 0, rooted |-> FALSE,
               event |-> Event("Tiny_InitThread", Tiny_InitThread, Tiny_InitThread,
                               FALSE, NoCall)]

\* the record of a host call of which the properties need the name only
HostEvent(kind) == Event(kind, Tiny_InitThread, Tiny_InitThread, FALSE, NoCall)

Marking == hist.source = "mark" /\ HostTurn

MarkStart == hist.source = "mark" /\ StartThread

\* the host calls Tiny_NewNative, with a prop that has the callbacks or not
MarkNewNative ==
    /\ Marking
    /\ thread.pc >= 0
    /\ ~hist.rooted
    /\ thread.numObjects < INIT_GC_THRESH
    /\ \E prop \in {NativeProp, PlainProp} :
          /\ Len(thread.heap) # MaxGraph - 1 => prop = NativeProp
          /\ thread' = Tiny_NewNative(thread, NativeAddr(Len(thread.heap) + 1), {}, prop)
    /\ hist' = [hist EXCEPT !.event = HostEvent("Tiny_NewNative")]
    /\ UNCHANGED state

\* host code stores a reference to native b in the payload of native a
MarkAttach ==
    /\ Marking
    /\ thread.numObjects = INIT_GC_THRESH
    /\ ~hist.rooted
    /\ hist.protects = 0
    /\ hist.attaches < MaxAttach
    /\ \E a \in 1..MaxGraph, b \in 1..MaxGraph :
          /\ b \notin thread.heap[a].refs
          /\ thread' = [thread EXCEPT !.heap[a].refs = @ \cup {b}]
    /\ hist' = [hist EXCEPT !.attaches = @ + 1,
                            !.event = HostEvent("attach")]
    /\ UNCHANGED state

\* the host calls Tiny_ProtectFromGC on one of the natives
MarkProtect ==
    /\ Marking
    /\ thread.numObjects = INIT_GC_THRESH
    /\ ~hist.rooted
    /\ hist.protects = 0
    /\ \E o \in 1..MaxGraph :
          /\ thread' = Tiny_ProtectFromGC(thread, ObjectValue(thread, o), 0)
          /\ hist' = [hist EXCEPT
                        !.protects = @ + 1,
                        !.event = [Event("Tiny_ProtectFromGC", thread, thread, FALSE, NoCall)
                                   EXCEPT !.op = o]]
    /\ UNCHANGED state

\* the host stores one of the natives in the global b
MarkSetGlobal ==
    /\ Marking
    /\ thread.numObjects = INIT_GC_THRESH
    /\ ~hist.rooted
    /\ \E o \in 1..MaxGraph :
          thread' = Tiny_SetGlobal(thread, 1, ObjectValue(thread, o))
    /\ hist' = [hist EXCEPT !.rooted = TRUE,
                            !.event = HostEvent("Tiny_SetGlobal")]
    /\ UNCHANGED state

MarkCycle == hist.source = "mark" /\ hist.rooted /\ HostExecuteCycle

NextMark ==
    \/ MarkStart
    \/ MarkNewNative
    \/ MarkAttach
    \/ MarkProtect
    \/ MarkSetGlobal
    \/ MarkCycle

SpecMark == InitMark /\ [][NextMark]_vars

\* Tiny_ProtectFromGC calls the callback of o: a native with a callback, not marked
CallsBack(t, o) ==
    t.heap[o].type = "NATIVE" /\ t.heap[o].protectFromGC /\ t.heap[o].marked = 0

\* protecting objs reaches a native whose callback protects, directly or
\* through other callbacks, that native again
CyclicFrom(t, objs) ==
    \E o \in ProtectedFrom(t, objs) :
        CallsBack(t, o) /\ o \in ProtectedFrom(t, t.heap[o].refs)

RootObjects(t) == {v.val : v \in {r \in RootValues(t) : IsObject(r)}}

Marked(t) == {o \in 1..Len(t.heap) : t.heap[o].marked = 1}

\* C27: Tiny_ProtectFromGC on an unmarked native calls its protectFromGC
\* callback before it sets the mark, so a callback that protects the same
\* object, directly or through other natives' callbacks, enters
\* Tiny_ProtectFromGC and the callback again without end; a call on an
\* acyclic graph returns with exactly the objects it reached marked.  The
\* mark phase of a collection ends for an acyclic graph of natives (and the
\* collection keeps what the callbacks protect) and does not end when a
\* cycle of callbacks is reachable from a root.
C27_CallbackBeforeMark ==
    LET e == hist.event
    IN  hist.source = "mark" =>
            /\ e.kind = "Tiny_ProtectFromGC" =>
                    /\ thread.status = "hung" <=> CyclicFrom(e.before, {e.op})
                    /\ thread.status = "ok" =>
                            Marked(thread) = Marked(e.before) \cup ProtectedFrom(e.before, {e.op})
            /\ (CycleEvent /\ e.result /\ e.atEnd.status = "ok"
                /\ e.atEnd.numObjects >= e.atEnd.maxNumObjects) =>
                    /\ thread.status = "hung" <=> CyclicFrom(e.atEnd, RootObjects(e.atEnd))
                    /\ thread.status = "ok" => /\ Collected
                                               /\ Listed(thread) = Protected(e.atEnd) \cup Marked(e.atEnd)
            /\ thread.status \in {"ok", "hung"}

\* a collection whose mark phase does not end: the root is a native whose
\* callback protects a second native, whose callback protects the first
C27_Witness ==
    LET d == hist.event.atEnd
    IN  /\ hist.source = "mark"
        /\ CycleEvent
        /\ thread.status = "hung"
        /\ d.globalVars[2] = ObjectValue(d, 1)
        /\ d.heap[1].refs = {2}
        /\ d.heap[2].refs = {1}
        /\ Marked(d) = {}

(***************************************************************************)
(* Compilations after a thread has allocated its globals.                  *)
(***************************************************************************)
MaxLateUnits == 3
MaxLateStarts == 2
MaxLateCalls == 1

LateUnits ==
    << \* a := 1  func get() { return a }
       << Bin(":=", Ident("a"), Number(1)),
          Func("get", << >>, Block(<< Ret(Ident("a")) >>)) >>,
       \* b := a + 1
       << Bin(":=", Ident("b"), Bin("+", Ident("a"), Number(1))) >>,
       \* a = 5
       << Bin("=", Ident("a"), Number(5)) >> >>

\* the last operation: its name, the global index it was given (the operand
\* of the instruction for a cycle), the opcode a cycle executed
LateEvent(kind, index, op) == [kind |-> kind, index |-> index, op |-> op]

InitLate ==
    /\ state = HostState
    /\ thread = Tiny_InitThread
    /\ hist = [source |-> "late", units |-> << >>, starts |-> 0, calls |-> 0,
               allocLen |-> 0, declaredLater |-> 0,
               event |-> LateEvent("Tiny_InitThread", 0, -1)]

\* the host may call the API: the process runs and the thread is not running
LateTurn == hist.source = "late" /\ thread.status = "ok" /\ ~state.failed

\* hist after an operation that may have allocated the globals
Allocating(t2, event) ==
    [hist EXCEPT !.allocLen = IF ~thread.globalsAllocated /\ t2.globalsAllocated
                              THEN state.numGlobalVars ELSE @,
                 !.event = event]

\* Tiny_CompileString on the State, while the thread is not running
LateCompile ==
    /\ LateTurn
    /\ thread.pc < 0
    /\ Len(hist.units) < MaxLateUnits
    /\ \E u \in 1..Len(LateUnits) :
          /\ state' = Tiny_CompileString(state, LateUnits[u])
          /\ thread' = IF state'.failed THEN Fatal(thread, "exit") ELSE thread
          /\ hist' = [hist EXCEPT
                        !.units = Append(@, u),
                        !.declaredLater = IF thread.globalsAllocated
                                          THEN @ + state'.numGlobalVars - state.numGlobalVars
                                          ELSE @,
                        !.event = LateEvent("Tiny_CompileString", 0, -1)]

LateStart ==
    /\ LateTurn
    /\ thread.pc < 0
    /\ Len(hist.units) > 0
    /\ hist.starts < MaxLateStarts
    /\ thread' = Tiny_StartThread(thread)
    /\ hist' = [Allocating(thread', LateEvent("Tiny_StartThread", 0, -1))
                EXCEPT !.starts = @ + 1]
    /\ UNCHANGED state

LateCycle ==
    /\ LateTurn
    /\ thread.pc >= 0
    /\ thread' = HostCycle(thread)
    /\ hist' = [hist EXCEPT !.event = LateEvent("Tiny_ExecuteCycle",
                                                ReadInteger(thread.pc + 1), OpAt(thread))]
    /\ UNCHANGED state

\* Tiny_CallFunction of get
LateCall ==
    /\ LateTurn
    /\ thread.pc < 0
    /\ state.numFunctions > 0
    /\ hist.calls < MaxLateCalls
    /\ thread' = Tiny_CallFunction(thread, 0, << >>)
    /\ hist' = [Allocating(thread', LateEvent("Tiny_CallFunction", 0, -1))
                EXCEPT !.calls = @ + 1]
    /\ UNCHANGED state

\* Tiny_SetGlobal with an index of a global of the State
LateSetGlobal ==
    /\ LateTurn
    /\ thread.pc < 0
    /\ thread.globalsAllocated
    /\ hist.calls < MaxLateCalls
    /\ \E index \in 0..(state.numGlobalVars - 1) :
          /\ thread' = Tiny_SetGlobal(thread, index, Tiny_NewNumber(7))
          /\ hist' = [hist EXCEPT !.calls = @ + 1,
                                  !.event = LateEvent("Tiny_SetGlobal", index, -1)]
    /\ UNCHANGED state

\* Tiny_GetGlobal with an index of a global of the State
LateGetGlobal ==
    /\ LateTurn
    /\ thread.pc < 0
    /\ thread.globalsAllocated
    /\ hist.calls < MaxLateCalls
    /\ \E index \in 0..(state.numGlobalVars - 1) :
          /\ thread' = Tiny_GetGlobal(thread, index).thread
          /\ hist' = [hist EXCEPT !.calls = @ + 1,
                                  !.event = LateEvent("Tiny_GetGlobal", index, -1)]
    /\ UNCHANGED state

NextLate ==
    \/ LateCompile
    \/ LateStart
    \/ LateCycle
    \/ LateCall
    \/ LateSetGlobal
    \/ LateGetGlobal

SpecLate == InitLate /\ [][NextLate]_vars

\* the last operation addressed the global hist.event.index of the thread
GlobalAccess ==
    \/ hist.event.kind \in {"Tiny_SetGlobal", "Tiny_GetGlobal"}
    \/ hist.event.kind = "Tiny_ExecuteCycle" /\ hist.event.op \in {OP_GET, OP_SET}

\* C28: the globals array of a thread is allocated by the first
\* Tiny_StartThread or Tiny_CallFunction with the numGlobalVars the State
\* has then, and keeps that length: its length equals numGlobalVars exactly
\* while no later compilation has declared a global.  A GET or SET
\* instruction and a Tiny_GetGlobal or Tiny_SetGlobal call for a global of
\* the State address a slot outside the array exactly when the index is one
\* a later compilation declared.
C28_GlobalsNeverResized ==
    hist.source = "late" =>
        /\ thread.globalsAllocated =>
                /\ Len(thread.globalVars) = hist.allocLen
                /\ state.numGlobalVars = hist.allocLen + hist.declaredLater
        /\ ~thread.globalsAllocated => thread.globalVars = NoGlobals /\ hist.declaredLater = 0
        /\ (GlobalAccess /\ hist.event.index >= 0 /\ hist.event.index < state.numGlobalVars) =>
                (thread.status = "ub" <=> hist.event.index >= hist.allocLen)
        /\ thread.status = "ub" => GlobalAccess /\ hist.declaredLater > 0
        /\ thread.status = "exit" => state.failed

\* the thread, restarted after a second compilation declared b, executed
\* the SET of b: slot 1 of an array of one global
C28_Witness ==
    /\ hist.source = "late"
    /\ hist.units = << 1, 2 >>
    /\ hist.starts = 2
    /\ hist.event.kind = "Tiny_ExecuteCycle"
    /\ hist.event.op = OP_SET
    /\ hist.event.index = 1
    /\ Len(thread.globalVars) = 1
    /\ state.numGlobalVars = 2
    /\ thread.status = "ub"

(***************************************************************************)
(* Function frames: functions with locals in nested and sibling scopes,    *)
(* compiled and run to the HALT.                                           *)
(***************************************************************************)
MaxFrameSources == 5
MaxTrips == 2

\* func scan(n, m) { t := 0  i := 0
\*                   while i < n { d := i * m  t += d  i += 1 }
\*                   if t > 0 { e := 1  t += e }
\*                   return t }
\* r := scan(x, 3)
FrameScan(x) ==
    << Func("scan", << "n", "m" >>,
            Block(<< Bin(":=", Ident("t"), Number(0)),
                     Bin(":=", Ident("i"), Number(0)),
                     While(Bin("<", Ident("i"), Ident("n")),
                           Block(<< Bin(":=", Ident("d"), Bin("*", Ident("i"), Ident("m"))),
                                    Bin("+=", Ident("t"), Ident("d")),
                                    Bin("+=", Ident("i"), Number(1)) >>)),
                     If(Bin(">", Ident("t"), Number(0)),
                        Block(<< Bin(":=", Ident("e"), Number(1)),
                                 Bin("+=", Ident("t"), Ident("e")) >>),
                        NoExpr),
                     Ret(Ident("t")) >>)),
       Bin(":=", Ident("r"), Call("scan", << Number(x), Number(3) >>)) >>

\* func zero() { return 7 }
\* r := zero() + x
FrameZero(x) ==
    << Func("zero", << >>, Block(<< Ret(Number(7)) >>)),
       Bin(":=", Ident("r"), Bin("+", Call("zero", << >>), Number(x))) >>

\* func sib(x) { s := 0
\*               for i := 0; i < x; i += 1 { c := i + i  s += c }
\*               if x > 1 { a := s + 1  s = a } else { b := s + 2  s = b }
\*               return s }
\* r := sib(x)
FrameSib(x) ==
    << Func("sib", << "x" >>,
            Block(<< Bin(":=", Ident("s"), Number(0)),
                     For(Bin(":=", Ident("i"), Number(0)),
                         Bin("<", Ident("i"), Ident("x")),
                         Bin("+=", Ident("i"), Number(1)),
                         Block(<< Bin(":=", Ident("c"), Bin("+", Ident("i"), Ident("i"))),
                                  Bin("+=", Ident("s"), Ident("c")) >>)),
                     If(Bin(">", Ident("x"), Number(1)),
                        Block(<< Bin(":=", Ident("a"), Bin("+", Ident("s"), Number(1))),
                                 Bin("=", Ident("s"), Ident("a")) >>),
                        Block(<< Bin(":=", Ident("b"), Bin("+", Ident("s"), Number(2))),
                                 Bin("=", Ident("s"), Ident("b")) >>)),
                     Ret(Ident("s")) >>)),
       Bin(":=", Ident("r"), Call("sib", << Number(x) >>)) >>

\* func inner(p, q) { u := p * q  return u }
\* func outer(k) { v := inner(k, 2)  inner(k, k)  w := inner(v, k) + v  return w }
\* r := outer(x)
FrameNest(x) ==
    << Func("inner", << "p", "q" >>,
            Block(<< Bin(":=", Ident("u"), Bin("*", Ident("p"), Ident("q"))),
                     Ret(Ident("u")) >>)),
       Func("outer", << "k" >>,
            Block(<< Bin(":=", Ident("v"), Call("inner", << Ident("k"), Number(2) >>)),
                     Call("inner", << Ident("k"), Ident("k") >>),
                     Bin(":=", Ident("w"),
                         Bin("+", Call("inner", << Ident("v"), Ident("k") >>), Ident("v"))),
                     Ret(Ident("w")) >>)),
       Bin(":=", Ident("r"), Call("outer", << Number(x) >>)) >>

\* func twin(x) { if x > 0 { y := 1  x = y }
\*                if x < 9 { y := 2  x = x + y }
\*                return x }
\* r := 1 + twin(x)
FrameTwin(x) ==
    << Func("twin", << "x" >>,
            Block(<< If(Bin(">", Ident("x"), Number(0)),
                        Block(<< Bin(":=", Ident("y"), Number(1)),
                                 Bin("=", Ident("x"), Ident("y")) >>),
                        NoExpr),
                     If(Bin("<", Ident("x"), Number(9)),
                        Block(<< Bin(":=", Ident("y"), Number(2)),
                                 Bin("=", Ident("x"), Bin("+", Ident("x"), Ident("y"))) >>),
                        NoExpr),
                     Ret(Ident("x")) >>)),
       Bin(":=", Ident("r"), Bin("+", Number(1), Call("twin", << Number(x) >>))) >>

\* the sources, by number
FrameSource(k, x) ==
    CASE k = 1 -> FrameScan(x)
      [] k = 2 -> FrameZero(x)
      [] k = 3 -> FrameSib(x)
      [] k = 4 -> FrameNest(x)
      [] k = 5 -> FrameTwin(x)
      [] OTHER -> FrameZero(x + k)

\* what the source leaves in the global r
FrameResult(k, x) ==
    CASE k = 1 -> IF x > 1 THEN 3 * ((x * (x - 1)) \div 2) + 1 ELSE 0
      [] k = 2 -> 7 + x
      [] k = 3 -> x * (x - 1) + (IF x > 1 THEN 1 ELSE 2)
      [] k = 4 -> 2 * x + 2 * x * x
      [] k = 5 -> IF x > 0 THEN 4 ELSE 3
      [] OTHER -> 7 + x + k

\* the compile state CompileState starts from on the State the parser left
FrameCompileStart(st) ==
    [program |-> st.program, functionPcs |-> [k \in 1..st.numFunctions |-> -1],
     Numbers |-> st.Numbers, globalSymbols |-> st.globalSymbols, failed |-> FALSE]

RECURSIVE StatementPcs(_, _, _)
RECURSIVE BlockPcs(_, _, _, _)

\* the offsets where the code of a statement of a function body starts and
\* ends, for the statement exp compiled at cs and the statements inside it
StatementPcs(cs, exp, inFunc) ==
    LET Inside(c, e) == IF e.type = "NONE" THEN {} ELSE StatementPcs(c, e, inFunc)
        After(c, e) == IF e.type = "NONE" THEN c ELSE CompileStatement(c, e)
        Test(c, cond) == GenerateInt(GenerateCode(CompileExpr(c, cond), OP_GOTOZ), 0)
        here == IF inFunc
                THEN {Len(cs.program), Len(CompileStatement(cs, exp).program)}
                ELSE {}
    IN  here \cup
        CASE exp.type = "BLOCK" -> BlockPcs(cs, exp.block, 1, inFunc)
          [] exp.type = "PROC" ->
                IF exp.body.type = "NONE" THEN {}
                ELSE Bind(GenerateLocals(GenerateInt(GenerateCode(cs, OP_GOTO), 0),
                                         exp.decl.nlocals),
                          LAMBDA c4 : StatementPcs(c4, exp.body, TRUE))
          [] exp.type = "IF" ->
                Bind(Test(cs, exp.cond),
                     LAMBDA c2 :
                        Bind(GenerateInt(GenerateCode(After(c2, exp.body), OP_GOTO), 0),
                             LAMBDA c5 : Inside(c2, exp.body) \cup Inside(c5, exp.alt)))
          [] exp.type = "WHILE" ->
                Bind(Test(cs, exp.cond), LAMBDA c2 : Inside(c2, exp.body))
          [] exp.type = "FOR" ->
                Bind(CompileStatement(cs, exp.init),
                     LAMBDA c0 :
                        Bind(Test(c0, exp.cond),
                             LAMBDA c2 :
                                Bind(After(c2, exp.body),
                                     LAMBDA c3 : Inside(cs, exp.init)
                                                    \cup Inside(c2, exp.body)
                                                    \cup Inside(c3, exp.step))))
          [] OTHER -> {}

\* the statements block[i], block[i + 1], ... compiled in order from cs
BlockPcs(cs, block, i, inFunc) ==
    IF i > Len(block) THEN {}
    ELSE Bind(CompileStatement(cs, block[i]),
              LAMBDA c1 : StatementPcs(cs, block[i], inFunc)
                            \cup BlockPcs(c1, block, i + 1, inFunc))

InitFrames ==
    /\ state = HostState
    /\ thread = Tiny_InitThread
    /\ \E k \in 1..MaxFrameSources, x \in 0..MaxTrips :
          hist = [calls |-> << >>, hostCalls |-> 0, starts |-> 0,
                  source |-> "frames", program |-> "frames", choices |-> {},
                  frame |-> k, x |-> x, compiled |-> FALSE, stmts |-> {},
                  event |-> Event("Tiny_InitThread", Tiny_InitThread, Tiny_InitThread,
                                  FALSE, NoCall)]

\* Tiny_CompileString of the source
FrameCompile ==
    /\ hist.source = "frames"
    /\ ~hist.compiled
    /\ state' = Tiny_CompileString(state, FrameSource(hist.frame, hist.x))
    /\ thread' = IF state'.failed THEN Fatal(thread, "exit") ELSE thread
    /\ hist' = [hist EXCEPT
            !.compiled = TRUE,
            !.stmts = LET p == ParseProgram(state, FrameSource(hist.frame, hist.x))
                      IN  IF p.st.failed THEN {}
                          ELSE BlockPcs(FrameCompileStart(p.st), p.exps, 1, FALSE)]

FrameStart == hist.source = "frames" /\ hist.compiled /\ StartThread

FrameCycle == hist.source = "frames" /\ hist.compiled /\ HostExecuteCycle

NextFrames ==
    \/ FrameCompile
    \/ FrameStart
    \/ FrameCycle

SpecFrames == InitFrames /\ [][NextFrames]_vars

\* the source is compiled
FramesCompiled == hist.source = "frames" /\ hist.compiled /\ ~state.failed

\* the FUNCTION symbol of the user function with index f
FunctionSymbol(f) == state.globalSymbols[CHOOSE i \in SymbolsAt("FUNCTION", f) : TRUE]

\* the number of locals and of parameters of the user function with index f
NumLocals(f) == Len(FunctionSymbol(f).locals)
NumParams(f) == Len(FunctionSymbol(f).args)

\* the L instructions from pc on are PUSH_NUMBER 0
Prologue(program, pc, L) ==
    \A k \in 0..(L - 1) :
        /\ pc + 5 * k \in InstructionPcs(program, 0)
        /\ program[pc + 5 * k + 1] = OP_PUSH_NUMBER
        /\ LET numberIndex == JumpTarget(program, pc + 5 * k)
           IN  /\ numberIndex >= 0 /\ numberIndex < Len(state.Numbers)
               /\ state.Numbers[numberIndex + 1] = 0

\* the function index of the CALL the last cycle executed
CalledFunction == ReadInteger(hist.event.before.pc + 5)

\* the run of the program has reached the HALT
FramesDone == FramesCompiled /\ hist.starts > 0 /\ thread.status = "ok" /\ thread.pc < 0

\* C29 (amended): for every compiled user function with L locals, the
\* function-PC table entry points to the first instruction of the prologue,
\* the instruction after the GOTO that skips the function: the entry is
\* followed by L PUSH_NUMBER 0, one per local, and the first statement of
\* the body starts at entry + 5 L.  A CALL that has executed leaves pc at
\* the entry with sp = fp, no local slot reserved yet.
C29_EntryAtPrologue ==
    FramesCompiled =>
        /\ \A f \in 0..(state.numFunctions - 1) :
              LET entry == state.functionPcs[f + 1]
                  L == NumLocals(f)
              IN  /\ Cardinality(SymbolsAt("FUNCTION", f)) = 1
                  /\ FunctionEntry(state.program, entry)
                  /\ Prologue(state.program, entry, L)
                  /\ entry + 5 * L \in hist.stmts
                  /\ \A pc \in hist.stmts : pc >= entry =>  pc >= entry + 5 * L
        /\ (Executed(OP_CALL) /\ thread.status = "ok") =>
              /\ thread.pc = state.functionPcs[CalledFunction + 1]
              /\ thread.sp = thread.fp

\* a CALL of scan, a function with four locals, has just executed: pc is at
\* the first PUSH_NUMBER 0 of the prologue
C29_Witness ==
    /\ FramesCompiled /\ hist.frame = 1 /\ hist.x = 2
    /\ Executed(OP_CALL) /\ thread.status = "ok"
    /\ NumLocals(CalledFunction) = 4
    /\ thread.pc = state.functionPcs[CalledFunction + 1]
    /\ OpAt(thread) = OP_PUSH_NUMBER
    /\ thread.sp = thread.fp

\* C29 as stated: for every compiled user function, the function-PC table
\* entry points to the first instruction after the prologue (after the one
\* PUSH_NUMBER 0 per local)
C29_Original ==
    FramesCompiled =>
        \A f \in 0..(state.numFunctions - 1) :
            LET entry == state.functionPcs[f + 1]
                L == NumLocals(f)
            IN  /\ FunctionEntry(state.program, entry - 5 * L)
                /\ Prologue(state.program, entry - 5 * L, L)

\* the user functions whose code, from the entry to the closing RETURN,
\* holds the offset pc
FunctionsAt(pc) ==
    {f \in 0..(state.numFunctions - 1) :
        /\ state.functionPcs[f + 1] <= pc
        /\ pc < JumpTarget(state.program, state.functionPcs[f + 1] - 5)}

\* the value in stack slot i of t
Slot(t, i) == t.stack[i + 1]

\* C30: in a compiled function with L locals declared over all its scopes
\* and n parameters, local number i (in order of declaration) has index i,
\* so the indices are distinct and fill [0, L) also across sibling scopes,
\* parameter k has index -n + k, and every GETLOCAL/SETLOCAL of the function
\* has an operand in [-n, L).  While the function runs fp is the sp of its
\* CALL, the n slots below fp hold the arguments the call pushed, during the
\* prologue sp = fp + the number of PUSH_NUMBER 0 executed, after it
\* sp >= fp + L, and wherever a statement of the body starts or ends
\* sp = fp + L; GETLOCAL and SETLOCAL read and write stack[fp + index]; the
\* run does not fail and leaves the value of the source in the global r.
C30_FrameLayout ==
    FramesCompiled =>
        /\ thread.status = "ok"
        /\ \A f \in 0..(state.numFunctions - 1) :
              LET sym == FunctionSymbol(f)
                  L == NumLocals(f)
                  n == NumParams(f)
              IN  /\ \A i \in 1..L : sym.locals[i].index = i - 1
                  /\ \A i, j \in 1..L : i # j => sym.locals[i].index # sym.locals[j].index
                  /\ \A i \in 1..L : sym.locals[i].index \in 0..(L - 1)
                  /\ \A k \in 0..(n - 1) : sym.args[k + 1].index = -n + k
                  /\ \A pc \in InstructionPcs(state.program, 0) :
                        (/\ f \in FunctionsAt(pc)
                         /\ state.program[pc + 1] \in {OP_GETLOCAL, OP_SETLOCAL}) =>
                            JumpTarget(state.program, pc) \in (-n)..(L - 1)
        /\ (thread.status = "ok" /\ thread.pc >= 0) =>
              \A f \in FunctionsAt(thread.pc) :
                 LET entry == state.functionPcs[f + 1]
                     L == NumLocals(f)
                     n == NumParams(f)
                 IN  /\ FunctionsAt(thread.pc) = {f}
                     /\ Len(hist.calls) > 0
                     /\ Last(hist.calls).f = f
                     /\ Last(hist.calls).nargs = n
                     /\ thread.fp = Last(hist.calls).sp
                     /\ thread.fp >= n
                     /\ thread.pc < entry + 5 * L =>
                            /\ thread.sp = thread.fp + (thread.pc - entry) \div 5
                            /\ \A i \in 0..(thread.sp - thread.fp - 1) :
                                    Slot(thread, thread.fp + i) = Tiny_NewNumber(0)
                     /\ thread.pc >= entry + 5 * L => thread.sp >= thread.fp + L
                     /\ thread.pc \in hist.stmts => thread.sp = thread.fp + L
                     /\ Executed(OP_CALL) =>
                            \A k \in 0..(n - 1) :
                                Slot(thread, thread.fp - n + k) = Last(hist.calls).args[k + 1]
        /\ (Executed(OP_GETLOCAL) /\ thread.status = "ok") =>
              LET before == hist.event.before
              IN  /\ thread.sp = before.sp + 1
                  /\ Top(thread) = Slot(before, before.fp + Operand)
        /\ (Executed(OP_SETLOCAL) /\ thread.status = "ok") =>
              LET before == hist.event.before
              IN  /\ thread.sp = before.sp - 1
                  /\ \A i \in 0..(thread.sp - 1) :
                        Slot(thread, i) = IF i = before.fp + Operand
                                          THEN Top(before) ELSE Slot(before, i)
        /\ FramesDone =>
              /\ thread.sp = 0
              /\ thread.globalVars[Tiny_GetGlobalIndex(state, "r") + 1] =
                    Tiny_NewNumber(FrameResult(hist.frame, hist.x))

\* the second turn of the loop of scan(2, 3) is about to declare d again:
\* sp = fp + 4, the locals t and i hold 0 and 1 in stack[fp] and
\* stack[fp + 1], the arguments 2 and 3 are in stack[fp - 2] and stack[fp - 1]
C30_Witness ==
    /\ FramesCompiled /\ hist.frame = 1 /\ hist.x = 2
    /\ thread.status = "ok" /\ thread.pc \in hist.stmts
    /\ FunctionsAt(thread.pc) # {}
    /\ OpAt(thread) = OP_GETLOCAL /\ JumpTarget(state.program, thread.pc) = 1
    /\ state.program[thread.pc + 6] = OP_GETLOCAL
    /\ JumpTarget(state.program, thread.pc + 5) = -1
    /\ thread.sp = thread.fp + 4
    /\ Slot(thread, thread.fp) = Tiny_NewNumber(0)
    /\ Slot(thread, thread.fp + 1) = Tiny_NewNumber(1)
    /\ Slot(thread, thread.fp - 2) = Tiny_NewNumber(2)
    /\ Slot(thread, thread.fp - 1) = Tiny_NewNumber(3)

(***************************************************************************)
(* Statements: every kind of statement, at top level and in a function     *)
(* body, compiled and run to the HALT.                                     *)
(***************************************************************************)
MaxStmtSources == 3

\* a := x
\* b := 0
\* while a > 0 { b += a  a -= 1 }
\* if b > 1 { c := b  b = c * 2 } else { b = 7 }
\* for i := 0; i < x; i += 1 { b += i }
\* { b %= 5 }
\* r := b
StmtTop(x) ==
    << Bin(":=", Ident("a"), Number(x)),
       Bin(":=", Ident("b"), Number(0)),
       While(Bin(">", Ident("a"), Number(0)),
             Block(<< Bin("+=", Ident("b"), Ident("a")),
                      Bin("-=", Ident("a"), Number(1)) >>)),
       If(Bin(">", Ident("b"), Number(1)),
          Block(<< Bin(":=", Ident("c"), Ident("b")),
                   Bin("=", Ident("b"), Bin("*", Ident("c"), Number(2))) >>),
          Block(<< Bin("=", Ident("b"), Number(7)) >>)),
       For(Bin(":=", Ident("i"), Number(0)),
           Bin("<", Ident("i"), Number(x)),
           Bin("+=", Ident("i"), Number(1)),
           Block(<< Bin("+=", Ident("b"), Ident("i")) >>)),
       Block(<< Bin("%=", Ident("b"), Number(5)) >>),
       Bin(":=", Ident("r"), Ident("b")) >>

\* g := x
\* func bump(n) { g += n }
\* bump(2)
\* sub(3, 1)
\* { bump(1)  bump(x) }
\* r := g
StmtCalls(x) ==
    << Bin(":=", Ident("g"), Number(x)),
       Func("bump", << "n" >>, Block(<< Bin("+=", Ident("g"), Ident("n")) >>)),
       Call("bump", << Number(2) >>),
       Call("sub", << Number(3), Number(1) >>),
       Block(<< Call("bump", << Number(1) >>), Call("bump", << Number(x) >>) >>),
       Bin(":=", Ident("r"), Ident("g")) >>

\* func work(n) { k := n
\*                while k > 0 { k -= 1  sub(k, 1) }
\*                { q := k + 3  k = q }
\*                if n > 1 { k *= n } else { k -= 0 }
\*                for j := 0; j < n; j += 1 { k += j }
\*                return k }
\* r := 1 + work(x)
StmtBody(x) ==
    << Func("work", << "n" >>,
            Block(<< Bin(":=", Ident("k"), Ident("n")),
                     While(Bin(">", Ident("k"), Number(0)),
                           Block(<< Bin("-=", Ident("k"), Number(1)),
                                    Call("sub", << Ident("k"), Number(1) >>) >>)),
                     Block(<< Bin(":=", Ident("q"), Bin("+", Ident("k"), Number(3))),
                              Bin("=", Ident("k"), Ident("q")) >>),
                     If(Bin(">", Ident("n"), Number(1)),
                        Block(<< Bin("*=", Ident("k"), Ident("n")) >>),
                        Block(<< Bin("-=", Ident("k"), Number(0)) >>)),
                     For(Bin(":=", Ident("j"), Number(0)),
                         Bin("<", Ident("j"), Ident("n")),
                         Bin("+=", Ident("j"), Number(1)),
                         Block(<< Bin("+=", Ident("k"), Ident("j")) >>)),
                     Ret(Ident("k")) >>)),
       Bin(":=", Ident("r"), Bin("+", Number(1), Call("work", << Number(x) >>))) >>

\* the sources, by number
StmtSource(k, x) ==
    CASE k = 1 -> StmtTop(x)
      [] k = 2 -> StmtCalls(x)
      [] k = 3 -> StmtBody(x)
      [] OTHER -> StmtCalls(x + k)

\* what the source leaves in the global r
StmtResult(k, x) ==
    CASE k = 1 -> LET s == (x * (x + 1)) \div 2
                      b == IF s > 1 THEN 2 * s ELSE 7
                  IN  (b + (x * (x - 1)) \div 2) % 5
      [] k = 2 -> 2 * x + 3
      [] k = 3 -> 1 + (IF x > 1 THEN 3 * x ELSE 3) + (x * (x - 1)) \div 2
      [] OTHER -> 2 * (x + k) + 3

InitStmts ==
    /\ state = HostState
    /\ thread = Tiny_InitThread
    /\ \E k \in 1..MaxStmtSources, x \in 0..MaxTrips :
          hist = [calls |-> << >>, hostCalls |-> 0, starts |-> 0,
                  source |-> "stmts", program |-> "stmts", choices |-> {},
                  unit |-> k, x |-> x, compiled |-> FALSE, stmts |-> {},
                  event |-> Event("Tiny_InitThread", Tiny_InitThread, Tiny_InitThread,
                                  FALSE, NoCall)]

\* Tiny_CompileString of the source
StmtCompile ==
    /\ hist.source = "stmts"
    /\ ~hist.compiled
    /\ state' = Tiny_CompileString(state, StmtSource(hist.unit, hist.x))
    /\ thread' = IF state'.failed THEN Fatal(thread, "exit") ELSE thread
    /\ hist' = [hist EXCEPT
            !.compiled = TRUE,
            !.stmts = LET p == ParseProgram(state, StmtSource(hist.unit, hist.x))
                      IN  IF p.st.failed THEN {}
                          ELSE BlockPcs(FrameCompileStart(p.st), p.exps, 1, TRUE)]

StmtStart == hist.source = "stmts" /\ hist.compiled /\ StartThread

StmtCycle == hist.source = "stmts" /\ hist.compiled /\ HostExecuteCycle

NextStmts ==
    \/ StmtCompile
    \/ StmtStart
    \/ StmtCycle

SpecStmts == InitStmts /\ [][NextStmts]_vars

\* the source is compiled
StmtsCompiled == hist.source = "stmts" /\ hist.compiled /\ ~state.failed

\* the run of the program has reached the HALT
StmtsDone == StmtsCompiled /\ hist.starts > 0 /\ thread.status = "ok" /\ thread.pc < 0

\* the thread is where the code of a statement starts or ends
AtStatement == thread.status = "ok" /\ thread.pc >= 0 /\ thread.pc \in hist.stmts

\* C31: wherever the code of a statement (assignment, declaration, compound
\* assignment, call of a user or a foreign function, block, if, while, for)
\* starts or ends, sp is the base of the running frame: 0 with fp = 0 and an
\* empty indirection stack at top level, fp + the number of locals in a
\* function; so every statement leaves sp as it found it.  The program runs
\* to the HALT without failing and ends with sp = 0, an empty indirection
\* stack and the value of the source in the global r.
C31_StatementsBalanced ==
    StmtsCompiled =>
        /\ thread.status = "ok"
        /\ \A pc \in hist.stmts : pc \in InstructionPcs(state.program, 0)
        /\ AtStatement =>
              IF FunctionsAt(thread.pc) = {}
              THEN thread.sp = 0 /\ thread.fp = 0 /\ thread.indirStackSize = 0
              ELSE \A f \in FunctionsAt(thread.pc) :
                        /\ thread.sp = thread.fp + NumLocals(f)
                        /\ thread.indirStackSize = 3
        /\ StmtsDone =>
              /\ thread.sp = 0
              /\ thread.indirStackSize = 0
              /\ thread.globalVars[Tiny_GetGlobalIndex(state, "r") + 1] =
                    Tiny_NewNumber(StmtResult(hist.unit, hist.x))

\* the for loop at top level is about to run its step after the compound
\* assignment of its body: sp = 0
C31_Witness ==
    /\ StmtsCompiled /\ hist.unit = 1 /\ hist.x = 2
    /\ AtStatement
    /\ FunctionsAt(thread.pc) = {}
    /\ Executed(OP_SET)
    /\ hist.event.before.sp = 1
    /\ thread.sp = 0
    /\ thread.globalVars[Tiny_GetGlobalIndex(state, "b") + 1] = Tiny_NewNumber(7)
    /\ thread.globalVars[Tiny_GetGlobalIndex(state, "i") + 1] = Tiny_NewNumber(1)

(***************************************************************************)
(* Loops: the order in which a run executes the parts of a for and of a    *)
(* while loop.                                                             *)
(***************************************************************************)
MaxLoopSources == 3

\* s := 0
\* for i := 0; i < x; i += 1 { s += i }
\* r := s
LoopFor(x) ==
    << Bin(":=", Ident("s"), Number(0)),
       For(Bin(":=", Ident("i"), Number(0)),
           Bin("<", Ident("i"), Number(x)),
           Bin("+=", Ident("i"), Number(1)),
           Block(<< Bin("+=", Ident("s"), Ident("i")) >>)),
       Bin(":=", Ident("r"), Ident("s")) >>

\* func dec(v) { return v - 1 }
\* n := x
\* t := 0
\* while n > 0 { t += n  n = dec(n) }
\* r := t
LoopWhile(x) ==
    << Func("dec", << "v" >>, Block(<< Ret(Bin("-", Ident("v"), Number(1))) >>)),
       Bin(":=", Ident("n"), Number(x)),
       Bin(":=", Ident("t"), Number(0)),
       While(Bin(">", Ident("n"), Number(0)),
             Block(<< Bin("+=", Ident("t"), Ident("n")),
                      Bin("=", Ident("n"), Call("dec", << Ident("n") >>)) >>)),
       Bin(":=", Ident("r"), Ident("t")) >>

\* func find(m) { for i := 0; i < 2; i += 1 { if i == m { return i + 5 } }
\*                return 9 }
\* r := find(x)
LoopReturn(x) ==
    << Func("find", << "m" >>,
            Block(<< For(Bin(":=", Ident("i"), Number(0)),
                         Bin("<", Ident("i"), Number(2)),
                         Bin("+=", Ident("i"), Number(1)),
                         Block(<< If(Bin("==", Ident("i"), Ident("m")),
                                     Block(<< Ret(Bin("+", Ident("i"), Number(5))) >>),
                                     NoExpr) >>)),
                     Ret(Number(9)) >>)),
       Bin(":=", Ident("r"), Call("find", << Number(x) >>)) >>

\* the sources, by number
LoopSource(k, x) ==
    CASE k = 1 -> LoopFor(x)
      [] k = 2 -> LoopWhile(x)
      [] k = 3 -> LoopReturn(x)
      [] OTHER -> LoopFor(x + k)

\* what the source leaves in the global r, and how often the body of its
\* loop is entered
LoopResult(k, x) ==
    CASE k = 1 -> (x * (x - 1)) \div 2
      [] k = 2 -> (x * (x + 1)) \div 2
      [] k = 3 -> IF x < 2 THEN x + 5 ELSE 9
      [] OTHER -> ((x + k) * (x + k - 1)) \div 2

LoopTurns(k, x) ==
    CASE k = 1 -> x
      [] k = 2 -> x
      [] k = 3 -> IF x < 2 THEN x + 1 ELSE 2
      [] OTHER -> x + k

\* the kind of the loop of the source
LoopKind(k) == IF k = 2 THEN "WHILE" ELSE "FOR"

\* the largest of the offsets in pcs that are below pc
Before(pcs, pc) ==
    LET below == {p \in pcs : p < pc}
    IN  IF below = {} THEN -1 ELSE CHOOSE p \in below : \A q \in below : q <= p

\* the loop of a program with one loop, stmts being the offsets where the
\* code of its statements starts and ends: back is the GOTO that jumps
\* backwards, cond its target, end the offset after it, gotoz the GOTOZ that
\* jumps to end, body the offset after the GOTOZ; of a for loop, init is the
\* statement that ends at cond and step the statement that ends at back
Loop(program, stmts, kind) ==
    LET pcs == InstructionPcs(program, 0)
        backs == {pc \in pcs : program[pc + 1] = OP_GOTO /\ JumpTarget(program, pc) <= pc}
        back == CHOOSE pc \in backs : TRUE
        tests == {pc \in pcs : /\ program[pc + 1] = OP_GOTOZ
                               /\ JumpTarget(program, pc) = back + 5}
        gotoz == CHOOSE pc \in tests : TRUE
    IN  IF Cardinality(backs) # 1 \/ Cardinality(tests) # 1
        THEN [kind |-> "NONE", init |-> -1, cond |-> -1, gotoz |-> -1, body |-> -1,
              step |-> -1, back |-> -1, end |-> -1]
        ELSE [kind |-> kind,
              init |-> IF kind = "FOR" THEN Before(stmts, JumpTarget(program, back)) ELSE -1,
              cond |-> JumpTarget(program, back),
              gotoz |-> gotoz,
              body |-> gotoz + 5,
              step |-> IF kind = "FOR" THEN Before(stmts, back) ELSE -1,
              back |-> back,
              end |-> back + 5]

NoLoop == [kind |-> "NONE", init |-> -1, cond |-> -1, gotoz |-> -1, body |-> -1,
           step |-> -1, back |-> -1, end |-> -1]

InitLoops ==
    /\ state = HostState
    /\ thread = Tiny_InitThread
    /\ \E k \in 1..MaxLoopSources, x \in 0..MaxTrips :
          hist = [calls |-> << >>, hostCalls |-> 0, starts |-> 0,
                  source |-> "loops", program |-> "loops", choices |-> {},
                  unit |-> k, x |-> x, compiled |-> FALSE, loop |-> NoLoop,
                  trace |-> << >>,
                  event |-> Event("Tiny_InitThread", Tiny_InitThread, Tiny_InitThread,
                                  FALSE, NoCall)]

\* Tiny_CompileString of the source
LoopCompile ==
    /\ hist.source = "loops"
    /\ ~hist.compiled
    /\ state' = Tiny_CompileString(state, LoopSource(hist.unit, hist.x))
    /\ thread' = IF state'.failed THEN Fatal(thread, "exit") ELSE thread
    /\ hist' = [hist EXCEPT
            !.compiled = TRUE,
            !.loop = Bind(ParseProgram(state, LoopSource(hist.unit, hist.x)),
                          LAMBDA p :
                             IF p.st.failed \/ state'.failed THEN NoLoop
                             ELSE Loop(state'.program,
                                       BlockPcs(FrameCompileStart(p.st), p.exps, 1, TRUE),
                                       LoopKind(hist.unit)))]

\* Tiny_StartThread, once: the order of the parts is that of one run
LoopStart == hist.source = "loops" /\ hist.compiled /\ hist.starts = 0 /\ StartThread

\* the part of the loop whose code starts at pc
LoopPart(loop, pc) ==
    CASE pc = loop.init -> "init"
      [] pc = loop.cond -> "cond"
      [] pc = loop.body -> "body"
      [] pc = loop.step -> "step"
      [] OTHER -> "none"

\* Tiny_ExecuteCycle; the trace gets the part of the loop the executed
\* instruction starts
LoopCycle ==
    /\ hist.source = "loops" /\ hist.compiled
    /\ HostTurn
    /\ LET r == ExecuteCycle(thread)
           part == LoopPart(hist.loop, thread.pc)
       IN  /\ WithinBounds(r.thread)
           /\ thread' = r.thread
           /\ hist' = [AfterCycle("Tiny_ExecuteCycle", thread, r) EXCEPT
                          !.trace = IF r.result /\ part # "none" THEN Append(@, part)
                                    ELSE @]
    /\ UNCHANGED state

NextLoops ==
    \/ LoopCompile
    \/ LoopStart
    \/ LoopCycle

SpecLoops == InitLoops /\ [][NextLoops]_vars

\* the source is compiled
LoopsCompiled == hist.source = "loops" /\ hist.compiled /\ ~state.failed

\* the run of the program has reached the HALT
LoopsDone == LoopsCompiled /\ hist.starts > 0 /\ thread.status = "ok" /\ thread.pc < 0

\* the k-th event of a run of a loop: init, (cond, body, step)*, cond for a
\* for loop, (cond, body)*, cond for a while loop
LoopOrder(kind, k) ==
    IF kind = "FOR"
    THEN IF k = 1 THEN "init" ELSE << "cond", "body", "step" >>[((k - 2) % 3) + 1]
    ELSE << "cond", "body" >>[((k - 1) % 2) + 1]

\* the number of events of the given part in the trace
Count(trace, part) == Cardinality({k \in 1..Len(trace) : trace[k] = part})

\* the last cycle was the loop's GOTOZ
LoopTested == Executed(OP_GOTOZ) /\ hist.event.before.pc = hist.loop.gotoz

\* C32: the parts of a loop start executing in the order init,
\* (cond, body, step)*, cond for a for loop and (cond, body)*, cond for a
\* while loop: init runs once, the loop's GOTOZ pops the value of cond and
\* continues at the body when it is true and at the instruction following
\* the loop when it is false, the body is followed by the step (for) and the
\* jump back to cond.  A loop that has been left through its GOTOZ has the
\* whole order behind it, ending with the cond that was false; a return
\* inside the body ends the order where it is.  The run ends with the value
\* of the source in r after the expected number of turns.
C32_LoopOrder ==
    LoopsCompiled =>
        LET loop == hist.loop
            trace == hist.trace
        IN  /\ thread.status = "ok"
            /\ loop.kind \in {"FOR", "WHILE"}
            /\ state.program[loop.gotoz + 1] = OP_GOTOZ
            /\ JumpTarget(state.program, loop.gotoz) = loop.end
            /\ state.program[loop.back + 1] = OP_GOTO
            /\ JumpTarget(state.program, loop.back) = loop.cond
            /\ loop.end = loop.back + 5
            /\ loop.cond < loop.gotoz /\ loop.body < loop.back
            /\ loop.kind = "FOR" =>
                  /\ loop.init >= 0 /\ loop.init < loop.cond
                  /\ loop.body < loop.step /\ loop.step < loop.back
            /\ \A k \in 1..Len(trace) : trace[k] = LoopOrder(loop.kind, k)
            /\ LoopTested =>
                  LET val == Top(hist.event.before)
                  IN  /\ val.type = "BOOL"
                      /\ thread.sp = hist.event.before.sp - 1
                      /\ trace[Len(trace)] \in {"cond"}
                      /\ thread.pc = IF val.val = 1 THEN loop.body ELSE loop.end
                      /\ val.val # 1 =>
                            /\ Count(trace, "cond") = Count(trace, "body") + 1
                            /\ loop.kind = "FOR" =>
                                  /\ Count(trace, "init") = 1
                                  /\ Count(trace, "step") = Count(trace, "body")
            /\ LoopsDone =>
                  /\ Count(trace, "body") = LoopTurns(hist.unit, hist.x)
                  /\ thread.globalVars[Tiny_GetGlobalIndex(state, "r") + 1] =
                        Tiny_NewNumber(LoopResult(hist.unit, hist.x))

\* the for loop of the first source has been left after two turns
C32_Witness ==
    /\ LoopsCompiled /\ hist.unit = 1 /\ hist.x = 2
    /\ LoopTested
    /\ thread.pc = hist.loop.end
    /\ hist.trace = << "init", "cond", "body", "step", "cond", "body", "step", "cond" >>

\* the calls of user functions that are open: the CALLs that have not
\* returned and the Tiny_CallFunction calls that have not returned
OpenCalls == SelectSeq(hist.calls, LAMBDA c : c.kind \in {"CALL", "API"})

\* the offset the GOTO before the code of function f jumps to
FunctionEnd(f) == JumpTarget(state.program, state.functionPcs[f + 1] - 5)

\* the next step may execute the instruction at pc: a cycle of the host, or
\* a turn of the loop of Tiny_CallFunction
AboutToExecute ==
    /\ thread.status = "ok" /\ ~thread.destroyed /\ thread.pc >= 0
    /\ \/ thread.cstack = << >>
       \/ /\ InCallFunction
          /\ thread.indirStackSize > Last(thread.cstack).indirStackSize

\* C33: in a compiled program the GOTO emitted before the code of each
\* function targets the offset immediately after the function's final
\* RETURN, the code between holds no HALT, and no jump crosses the border of
\* a function's code.  Whenever an instruction inside the code of a function
\* f is about to execute, the thread is inside a call of f that has not
\* returned: the innermost open CALL or Tiny_CallFunction is one of f and
\* its frame is on the indirection stack; with no call open, pc is outside
\* every function.
C33_BodiesOnlyInCalls ==
    hist.source = "compiler" =>
        LET pcs == InstructionPcs(state.program, 0)
        IN  /\ \A f \in 0..(state.numFunctions - 1) :
                  LET entry == state.functionPcs[f + 1]
                      end == FunctionEnd(f)
                  IN  /\ entry >= 5 /\ entry - 5 \in pcs
                      /\ state.program[entry - 4] = OP_GOTO
                      /\ end > entry /\ end <= Len(state.program)
                      /\ end - 1 \in pcs
                      /\ state.program[end] = OP_RETURN
                      /\ \A pc \in pcs :
                            /\ (pc >= entry /\ pc < end) => state.program[pc + 1] # OP_HALT
                            /\ state.program[pc + 1] \in {OP_GOTO, OP_GOTOZ} =>
                                  LET target == JumpTarget(state.program, pc)
                                  IN  (pc >= entry /\ pc < end)
                                        <=> (target >= entry /\ target < end)
            /\ AboutToExecute =>
                  /\ \A f \in FunctionsAt(thread.pc) :
                        /\ OpenCalls # << >>
                        /\ Last(OpenCalls).f = f
                        /\ thread.indirStackSize >= 3
                  /\ OpenCalls = << >> => FunctionsAt(thread.pc) = {}

\* a cycle inside the code of a function that a foreign callee called with
\* Tiny_CallFunction, itself inside a function the script called
C33_Witness ==
    /\ hist.source = "compiler"
    /\ AboutToExecute
    /\ FunctionsAt(thread.pc) # {}
    /\ Len(OpenCalls) >= 2
    /\ Last(OpenCalls).kind = "API"
    /\ OpenCalls[Len(OpenCalls) - 1].kind = "CALL"
    /\ hist.event.kind = "ExecuteCycle"
    /\ thread.pc > state.functionPcs[Last(OpenCalls).f + 1]

(***************************************************************************)
(* Calls: the order of the arguments and the value a call leaves.          *)
(***************************************************************************)
MaxCallSources == 3

\* n := x
\* func tick() { n = n * 2 + 1  return n }
\* func pair(a, b) { return a - b }
\* r := pair(tick(), tick())
CallOrder(x) ==
    << Bin(":=", Ident("n"), Number(x)),
       Func("tick", << >>,
            Block(<< Bin("=", Ident("n"),
                         Bin("+", Bin("*", Ident("n"), Number(2)), Number(1))),
                     Ret(Ident("n")) >>)),
       Func("pair", << "a", "b" >>,
            Block(<< Ret(Bin("-", Ident("a"), Ident("b"))) >>)),
       Bin(":=", Ident("r"), Call("pair", << Call("tick", << >>), Call("tick", << >>) >>)) >>

\* g := 0
\* func set(a) { g = a }
\* func bare(a) { g = g + a  return }
\* v := set(x + 1)
\* w := bare(2)
\* r := g
\* set(5)
CallNull(x) ==
    << Bin(":=", Ident("g"), Number(0)),
       Func("set", << "a" >>, Block(<< Bin("=", Ident("g"), Ident("a")) >>)),
       Func("bare", << "a" >>,
            Block(<< Bin("=", Ident("g"), Bin("+", Ident("g"), Ident("a"))),
                     Ret(NoExpr) >>)),
       Bin(":=", Ident("v"), Call("set", << Bin("+", Number(x), Number(1)) >>)),
       Bin(":=", Ident("w"), Call("bare", << Number(2) >>)),
       Bin(":=", Ident("r"), Ident("g")),
       Call("set", << Number(5) >>) >>

\* r := sub(sub(x, 1), sub(8, x))
\* sub(r, 1)
CallForeign(x) ==
    << Bin(":=", Ident("r"),
           Call("sub", << Call("sub", << Number(x), Number(1) >>),
                          Call("sub", << Number(8), Number(x) >>) >>)),
       Call("sub", << Ident("r"), Number(1) >>) >>

\* the sources, by number
CallSource(k, x) ==
    CASE k = 1 -> CallOrder(x)
      [] k = 2 -> CallNull(x)
      [] k = 3 -> CallForeign(x)
      [] OTHER -> CallForeign(x + k)

\* what the source leaves in the global r
CallResult(k, x) ==
    CASE k = 1 -> 0 - (2 * x + 2)
      [] k = 2 -> x + 3
      [] k = 3 -> 2 * x - 9
      [] OTHER -> 2 * (x + k) - 9

\* the argument lists of the calls of the source, first argument first
CallArgLists(k, x) ==
    LET num(s) == [i \in 1..Len(s) |-> Tiny_NewNumber(s[i])]
        foreign(y) == {num(<< y, 1 >>), num(<< 8, y >>), num(<< y - 1, 8 - y >>),
                       num(<< 2 * y - 9, 1 >>)}
    IN  CASE k = 1 -> {<< >>, num(<< 2 * x + 1, 4 * x + 3 >>)}
          [] k = 2 -> {num(<< x + 1 >>), num(<< 2 >>), num(<< 5 >>)}
          [] k = 3 -> foreign(x)
          [] OTHER -> foreign(x + k)

InitCalls ==
    /\ state = HostState
    /\ thread = Tiny_InitThread
    /\ \E k \in 1..MaxCallSources, x \in 0..MaxTrips :
          hist = [calls |-> << >>, hostCalls |-> 0, starts |-> 0,
                  source |-> "calls", program |-> "calls", choices |-> {},
                  unit |-> k, x |-> x, compiled |-> FALSE,
                  event |-> Event("Tiny_InitThread", Tiny_InitThread, Tiny_InitThread,
                                  FALSE, NoCall)]

\* Tiny_CompileString of the source
CallCompile ==
    /\ hist.source = "calls"
    /\ ~hist.compiled
    /\ state' = Tiny_CompileString(state, CallSource(hist.unit, hist.x))
    /\ thread' = IF state'.failed THEN Fatal(thread, "exit") ELSE thread
    /\ hist' = [hist EXCEPT !.compiled = TRUE]

CallStart == hist.source = "calls" /\ hist.compiled /\ StartThread

CallCycle == hist.source = "calls" /\ hist.compiled /\ HostExecuteCycle

NextCalls ==
    \/ CallCompile
    \/ CallStart
    \/ CallCycle

SpecCalls == InitCalls /\ [][NextCalls]_vars

\* the source is compiled
CallsCompiled == hist.source = "calls" /\ hist.compiled /\ ~state.failed

\* the run of the program has reached the HALT
CallsDone == CallsCompiled /\ hist.starts > 0 /\ thread.status = "ok" /\ thread.pc < 0

\* the call that has just returned is an expression: a GET_RETVAL follows it
ReturnedToExpr == OpAt(thread) = OP_GET_RETVAL

\* C34: the slice a CALL or CALLF hands its callee holds the values of the
\* argument expressions, first argument lowest, each evaluated after the one
\* before it (tick() is called for the first argument first); every
\* GET_RETVAL follows a CALL or CALLF and pushes exactly one value, the
\* return register, which the callee's RETURN_VALUE set to its value, its
\* RETURN (written or at the end of the body) to null, a foreign callee to
\* its result; a call in statement position has no GET_RETVAL after it and
\* leaves sp where it was before its arguments were pushed.
C34_CallValues ==
    LET e == hist.event
        b == e.before
        nargs == ReadInteger(b.pc + 1)
        global(name) == thread.globalVars[Tiny_GetGlobalIndex(state, name) + 1]
    IN  /\ (hist.source = "calls" /\ hist.compiled) => ~state.failed
        /\ CallsCompiled =>
            /\ thread.status = "ok"
            /\ \A pc \in InstructionPcs(state.program, 0) :
                  state.program[pc + 1] = OP_GET_RETVAL =>
                      /\ pc - 9 \in InstructionPcs(state.program, 0)
                      /\ state.program[pc - 9 + 1] \in {OP_CALL, OP_CALLF}
            /\ (Executed(OP_CALL) \/ Executed(OP_CALLF)) =>
                  SubSeq(b.stack, b.sp - nargs + 1, b.sp)
                      \in CallArgLists(hist.unit, hist.x)
            /\ Executed(OP_CALLF) =>
                  /\ thread.retVal =
                        ForeignCallee(b, state.foreignFunctions[ReadInteger(b.pc + 5) + 1],
                                      SubSeq(b.stack, b.sp - nargs + 1, b.sp)).ret
                  /\ thread.sp = b.sp - nargs
            /\ Executed(OP_RETURN) => thread.retVal = Tiny_Null
            /\ Executed(OP_RETURN_VALUE) => thread.retVal = Top(b)
            /\ (Executed(OP_RETURN) \/ Executed(OP_RETURN_VALUE)) =>
                  /\ e.call.kind = "CALL"
                  /\ thread.sp = e.call.sp - e.call.nargs
            /\ ((Executed(OP_RETURN) \/ Executed(OP_RETURN_VALUE) \/ Executed(OP_CALLF))
                    /\ ~ReturnedToExpr /\ thread.fp = 0) => thread.sp = 0
            /\ Executed(OP_GET_RETVAL) =>
                  /\ thread.sp = b.sp + 1
                  /\ Top(thread) = b.retVal
                  /\ thread.stack = [b.stack EXCEPT ![b.sp + 1] = b.retVal]
            /\ CallsDone =>
                  /\ thread.sp = 0
                  /\ global("r") = Tiny_NewNumber(CallResult(hist.unit, hist.x))
                  /\ hist.unit = 2 => global("v") = Tiny_Null /\ global("w") = Tiny_Null

\* bare(2) has returned through its RETURN with g = 4 and the GET_RETVAL of
\* w := bare(2) has pushed null
C34_Witness ==
    /\ CallsCompiled /\ hist.unit = 2 /\ hist.x = 1
    /\ Executed(OP_GET_RETVAL)
    /\ thread.sp = 1
    /\ Top(thread) = Tiny_Null
    /\ thread.globalVars[Tiny_GetGlobalIndex(state, "g") + 1] = Tiny_NewNumber(4)

\* pair(tick(), tick()) is entered with the first tick() in the lower slot
C34_WitnessOrder ==
    /\ CallsCompiled /\ hist.unit = 1 /\ hist.x = 1
    /\ Executed(OP_CALL)
    /\ hist.event.before.sp = 2
    /\ hist.event.before.stack[1] = Tiny_NewNumber(3)
    /\ hist.event.before.stack[2] = Tiny_NewNumber(7)

(***************************************************************************)
(* Marks set by the host.  The host allocates strings, calls               *)
(* Tiny_ProtectFromGC on some of the first MaxKeep of them, stores one in  *)
(* the global c or clears c, and runs the thread through several           *)
(* collections.                                                            *)
(***************************************************************************)
MaxKeep == 2
MaxKeepObjects == 10
MaxKeepProtects == 3
MaxKeepRoots == 1

\* c := 0
\* a := 1
\* a += 1
KeepSource ==
    << Bin(":=", Ident("c"), Number(0)),
       Bin(":=", Ident("a"), Number(1)),
       Bin("+=", Ident("a"), Number(1)) >>

InitKeep ==
    /\ state = Tiny_CompileString(HostState, KeepSource)
    /\ thread = Tiny_InitThread
    /\ hist = [calls |-> << >>, hostCalls |-> 0, starts |-> 0,
               source |-> "keep", program |-> "keep", choices |-> {},
               protects |-> 0, roots |-> 0,
               manual |-> {}, swept |-> {}, kept |-> {}, keptBefore |-> {},
               event |-> Event("Tiny_InitThread", Tiny_InitThread, Tiny_InitThread,
                               FALSE, NoCall)]

Keeping == hist.source = "keep" /\ HostTurn

KeepStart == hist.source = "keep" /\ hist.starts = 0 /\ StartThread

\* the host calls Tiny_NewString while the thread is below its threshold:
\* before the program runs, and again after a collection
KeepNewString ==
    /\ Keeping
    /\ hist.starts > 0
    /\ Len(thread.heap) < MaxKeepObjects
    /\ thread.collections = 0 => thread.pc = 0
    /\ thread.numObjects < thread.maxNumObjects
    /\ thread' = Tiny_NewString(thread, HostStrings.tmp)
    /\ hist' = [hist EXCEPT !.event = Event("Tiny_NewString", thread, thread', FALSE, NoCall)]
    /\ UNCHANGED state

\* the host calls Tiny_ProtectFromGC on one of its strings that is alive
KeepProtect ==
    /\ Keeping
    /\ thread.numObjects >= thread.maxNumObjects \/ thread.collections > 0
    /\ hist.protects < MaxKeepProtects
    /\ \E o \in 1..MaxKeep :
          /\ o \in Listed(thread)
          /\ thread' = Tiny_ProtectFromGC(thread, ObjectValue(thread, o), 0)
          /\ hist' = [hist EXCEPT
                        !.protects = @ + 1,
                        !.manual = @ \cup {x \in 1..Len(thread.heap) :
                                              /\ thread.heap[x].marked = 0
                                              /\ thread'.heap[x].marked = 1},
                        !.event = [Event("Tiny_ProtectFromGC", thread, thread', FALSE, NoCall)
                                   EXCEPT !.op = o]]
    /\ UNCHANGED state

\* the host stores one of its strings in the global c, or null
KeepSetGlobal ==
    /\ Keeping
    /\ thread.globalsAllocated
    /\ thread.numObjects >= thread.maxNumObjects \/ thread.collections > 0
    /\ hist.roots < MaxKeepRoots
    /\ \E v \in {Tiny_Null} \cup {ObjectValue(thread, o) : o \in Listed(thread) \cap 1..MaxKeep} :
          /\ v # thread.globalVars[Tiny_GetGlobalIndex(state, "c") + 1]
          /\ thread' = Tiny_SetGlobal(thread, Tiny_GetGlobalIndex(state, "c"), v)
    /\ hist' = [hist EXCEPT !.roots = @ + 1,
                            !.event = Event("Tiny_SetGlobal", thread, thread', FALSE, NoCall)]
    /\ UNCHANGED state

\* Tiny_ExecuteCycle, once the host has filled the heap to the threshold
KeepCycle ==
    /\ Keeping
    /\ thread.numObjects >= thread.maxNumObjects \/ thread.collections > 0
    /\ LET r == ExecuteCycle(thread)
           h == AfterCycle("Tiny_ExecuteCycle", thread, r)
           collected == r.thread.collections # thread.collections
       IN  /\ WithinBounds(r.thread)
           /\ thread' = r.thread
           /\ hist' = IF ~collected THEN h
                      ELSE [h EXCEPT
                              !.manual = {},
                              !.swept = hist.manual,
                              !.keptBefore = hist.kept,
                              !.kept = Listed(r.thread) \ Protected(h.event.atEnd)]
    /\ UNCHANGED state

NextKeep ==
    \/ KeepStart
    \/ KeepNewString
    \/ KeepProtect
    \/ KeepSetGlobal
    \/ KeepCycle

SpecKeep == InitKeep /\ [][NextKeep]_vars

\* C35: between collections the marked objects are exactly those the host
\* protected since the last collection, so every sweep left every survivor
\* with its mark clear; a collection keeps exactly the listed objects that
\* are reachable from the roots or were protected by the host since the
\* collection before.  So an unreachable object the host protected survives
\* the next collection, and the collection after that deletes it unless it
\* was protected again or had become reachable.
C35_ManualMarkOneCollection ==
    LET e == hist.event
        d == e.atEnd
    IN  hist.source = "keep" =>
            /\ thread.status = "ok"
            /\ \A o \in 1..Len(thread.heap) :
                  thread.heap[o].marked = 1 <=> o \in hist.manual
            /\ hist.manual \subseteq Listed(thread)
            /\ Collected =>
                  /\ \A o \in Listed(thread) : thread.heap[o].marked = 0
                  /\ Listed(thread) =
                        {o \in Listed(d) : o \in Protected(d) \/ o \in hist.swept}
                  /\ \A o \in hist.swept : o \in Listed(thread) /\ ~thread.heap[o].freed
                  /\ \A o \in hist.keptBefore :
                        IF o \in Protected(d) \/ o \in hist.swept
                        THEN o \in Listed(thread) /\ ~thread.heap[o].freed
                        ELSE o \notin Listed(thread) /\ thread.heap[o].freed

\* a collection has deleted a string that had survived the collection before
\* only because the host had protected it, while a second such string, which
\* the host protected again, survives once more
C35_Witness ==
    /\ hist.source = "keep"
    /\ Collected
    /\ thread.collections >= 2
    /\ \E o \in hist.keptBefore : thread.heap[o].freed
    /\ \E o \in hist.keptBefore : o \in hist.swept /\ o \in hist.kept

(***************************************************************************)
(* The initialized flag of variables.  CompileStatement sets it on the     *)
(* symbol an assignment statement targets; CheckInitialized, the last step *)
(* of CompileState, reports the first variable whose flag is clear.        *)
(***************************************************************************)
MaxFlagSources == 5

\* the symbol of a variable: the index of its function (-1: a global) and
\* its index
VarId(sym, func) ==
    [func |-> IF sym.type = "GLOBAL" THEN -1 ELSE func, index |-> sym.index]

RECURSIVE InitializedBy_Unconditional(_, _)
\* CompileStatement that sets the flag for the statements outside if, while
\* and for only
InitializedBy_Unconditional(exp, func) ==
    CASE exp.type = "BLOCK" ->
            UNION {InitializedBy_Unconditional(exp.block[i], func) : i \in 1..Len(exp.block)}
      [] exp.type = "BINARY" ->
            IF /\ exp.op # "::" /\ exp.op \in AssignOps /\ exp.lhs.type = "ID"
               /\ exp.lhs.sym.type \in {"GLOBAL", "LOCAL"}
            THEN {VarId(exp.lhs.sym, func)} ELSE {}
      [] exp.type = "PROC" -> InitializedBy_Unconditional(exp.body, exp.decl.index)
      [] OTHER -> {}

RECURSIVE InitializedBy(_, _)
\* the symbols whose initialized flag CompileStatement(exp) sets, exp being
\* compiled inside the function with index func: the target of every
\* assignment in statement position, whatever encloses it
InitializedBy(exp, func) ==
    CASE exp.type = "BLOCK" ->
            UNION {InitializedBy(exp.block[i], func) : i \in 1..Len(exp.block)}
      [] exp.type = "BINARY" ->
            IF /\ exp.op # "::" /\ exp.op \in AssignOps /\ exp.lhs.type = "ID"
               /\ exp.lhs.sym.type \in {"GLOBAL", "LOCAL"}
            THEN {VarId(exp.lhs.sym, func)} ELSE {}
      [] exp.type = "PROC" -> InitializedBy(exp.body, exp.decl.index)
      [] exp.type = "IF" -> InitializedBy(exp.body, func) \cup InitializedBy(exp.alt, func)
      [] exp.type = "WHILE" -> InitializedBy(exp.body, func)
      [] exp.type = "FOR" ->
            InitializedBy(exp.init, func) \cup InitializedBy(exp.body, func)
                \cup InitializedBy(exp.step, func)
      [] OTHER -> {}

\* the variables CheckInitialized looks at, as (position in globalSymbols,
\* position in the function's locals or 0): the globals and the locals of
\* the functions, not the arguments
CheckedVars(st) ==
    {<< i, 0 >> : i \in {k \in 1..Len(st.globalSymbols) : st.globalSymbols[k].type = "GLOBAL"}}
        \cup UNION {{<< i, j >> : j \in 1..Len(st.globalSymbols[i].locals)} :
                        i \in {k \in 1..Len(st.globalSymbols) :
                                    st.globalSymbols[k].type = "FUNCTION"}}

\* the symbol at a position CheckInitialized looks at, and its identity
CheckedSymbol(st, v) ==
    IF v[2] = 0 THEN st.globalSymbols[v[1]] ELSE st.globalSymbols[v[1]].locals[v[2]]

CheckedId(st, v) ==
    VarId(CheckedSymbol(st, v), IF v[2] = 0 THEN -1 ELSE st.globalSymbols[v[1]].index)

\* CheckInitialized: the symbols in order, each function's locals in order;
\* the first variable whose flag is clear is reported and the process exits
CheckInitialized(st, flagged) ==
    LET clear == {v \in CheckedVars(st) : CheckedId(st, v) \notin flagged}
        first == CHOOSE v \in clear :
                    \A w \in clear : v[1] < w[1] \/ (v[1] = w[1] /\ v[2] <= w[2])
    IN  IF clear = {} THEN [st |-> st, reported |-> ""]
        ELSE [st |-> ReportError(st), reported |-> CheckedSymbol(st, first).name]

\* c := x
\* if c > 1 { y := 1 } else { z := 2 }
\* while c > 5 { w := 3 }
FlagBranches(x) ==
    << Bin(":=", Ident("c"), Number(x)),
       If(Bin(">", Ident("c"), Number(1)),
          Block(<< Bin(":=", Ident("y"), Number(1)) >>),
          Block(<< Bin(":=", Ident("z"), Number(2)) >>)),
       While(Bin(">", Ident("c"), Number(5)),
             Block(<< Bin(":=", Ident("w"), Number(3)) >>)) >>

\* func f(a) { if a > 1 { return 0 }  k := a  a = 1  return k }
\* r := f(x)
FlagAfterReturn(x) ==
    << Func("f", << "a" >>,
            Block(<< If(Bin(">", Ident("a"), Number(1)),
                        Block(<< Ret(Number(0)) >>), NoExpr),
                     Bin(":=", Ident("k"), Ident("a")),
                     Bin("=", Ident("a"), Number(1)),
                     Ret(Ident("k")) >>)),
       Bin(":=", Ident("r"), Call("f", << Number(x) >>)) >>

\* c := x
\* while v := 1 { c = 0 }
FlagInCondition(x) ==
    << Bin(":=", Ident("c"), Number(x)),
       While(Bin(":=", Ident("v"), Number(1)),
             Block(<< Bin("=", Ident("c"), Number(0)) >>)) >>

\* func g(a) { if a > 0 { m := 1 }
\*             for i := 0; i < a; i += 1 { n := i } }
\* g(x)
FlagInFunction(x) ==
    << Func("g", << "a" >>,
            Block(<< If(Bin(">", Ident("a"), Number(0)),
                        Block(<< Bin(":=", Ident("m"), Number(1)) >>), NoExpr),
                     For(Bin(":=", Ident("i"), Number(0)),
                         Bin("<", Ident("i"), Ident("a")),
                         Bin("+=", Ident("i"), Number(1)),
                         Block(<< Bin(":=", Ident("n"), Ident("i")) >>)) >>)),
       Call("g", << Number(x) >>) >>

\* c := x
\* r := sub(u := 2, c)
FlagInArgument(x) ==
    << Bin(":=", Ident("c"), Number(x)),
       Bin(":=", Ident("r"),
           Call("sub", << Bin(":=", Ident("u"), Number(2)), Ident("c") >>)) >>

\* the sources, by number
FlagSource(k, x) ==
    CASE k = 1 -> FlagBranches(x)
      [] k = 2 -> FlagAfterReturn(x)
      [] k = 3 -> FlagInCondition(x)
      [] k = 4 -> FlagInFunction(x)
      [] k = 5 -> FlagInArgument(x)
      [] OTHER -> FlagBranches(x + k)

\* the sources in which a declaration stands where an expression is expected
FlagMisplaced(k) == k \in {3, 5}

InitFlags ==
    /\ state = HostState
    /\ thread = Tiny_InitThread
    /\ \E k \in 1..MaxFlagSources, x \in 0..MaxTrips :
          hist = [calls |-> << >>, hostCalls |-> 0, starts |-> 0,
                  source |-> "flags", program |-> "flags", choices |-> {},
                  unit |-> k, x |-> x, compiled |-> FALSE,
                  checked |-> FALSE, flagged |-> {}, reported |-> "",
                  event |-> Event("Tiny_InitThread", Tiny_InitThread, Tiny_InitThread,
                                  FALSE, NoCall)]

\* Tiny_CompileString with the flags: ParseProgram, then CompileState, whose
\* last step is CheckInitialized with the flags the compilation has set
CompileStringFlags(st, source) ==
    Bind(ParseProgram(st, source),
         LAMBDA p :
            IF p.st.failed
            THEN [st |-> p.st, checked |-> FALSE, flagged |-> {}, reported |-> ""]
            ELSE Bind(CompileState(p.st,
                                   [Numbers |-> p.st.Numbers, Strings |-> p.st.Strings],
                                   [prog |-> p.exps, globalSymbols |-> p.st.globalSymbols,
                                    numGlobalVars |-> p.st.numGlobalVars,
                                    numFunctions |-> p.st.numFunctions,
                                    numForeignFunctions |-> p.st.numForeignFunctions]),
                      LAMBDA c :
                        LET st1 == [p.st EXCEPT !.program = c.program,
                                                !.functionPcs = c.functionPcs,
                                                !.foreignFunctions = c.foreignFunctions,
                                                !.Numbers = c.Numbers, !.failed = c.failed]
                        IN  IF c.failed
                            THEN [st |-> st1, checked |-> FALSE, flagged |-> {},
                                  reported |-> ""]
                            ELSE Bind(InitializedBy(Block(p.exps), -1),
                                      LAMBDA flagged :
                                        Bind(CheckInitialized(st1, flagged),
                                             LAMBDA check :
                                                [st |-> check.st, checked |-> TRUE,
                                                 flagged |-> flagged,
                                                 reported |-> check.reported]))))

\* Tiny_CompileString of the source
FlagCompile ==
    /\ hist.source = "flags"
    /\ ~hist.compiled
    /\ \E r \in {CompileStringFlags(state, FlagSource(hist.unit, hist.x))} :
          /\ state' = r.st
          /\ hist' = [hist EXCEPT !.compiled = TRUE, !.checked = r.checked,
                                  !.flagged = r.flagged, !.reported = r.reported]
    /\ thread' = IF state'.failed THEN Fatal(thread, "exit") ELSE thread

FlagStart == hist.source = "flags" /\ hist.compiled /\ StartThread

FlagCycle == hist.source = "flags" /\ hist.compiled /\ HostExecuteCycle

NextFlags ==
    \/ FlagCompile
    \/ FlagStart
    \/ FlagCycle

SpecFlags == InitFlags /\ [][NextFlags]_vars

\* the compilation is over
FlagsCompiled == hist.source = "flags" /\ hist.compiled

\* the run of the program has reached the HALT
FlagsDone == FlagsCompiled /\ hist.starts > 0 /\ thread.status = "ok" /\ thread.pc < 0

\* the variables of the State whose flag is set
FlaggedVars == {v \in CheckedVars(state) : CheckedId(state, v) \in hist.flagged}

RetSource ==
    << Bin(":=", Ident("g"), Number(0)),
       Func("seven", << >>, Block(<< Ret(Number(7)) >>)),
       Func("poke", << "a" >>,
            Block(<< Bin("=", Ident("g"), Ident("a")),
                     Bin(":=", Ident("s"), Call("mkstr", << >>)),
                     Ret(Bin("+", Ident("a"), Number(1))) >>)),
       Bin(":=", Ident("y"), Call("seven", << >>)) >>

InitRet ==
    /\ state = Tiny_CompileString(HostState, RetSource)
    /\ thread = Tiny_InitThread
    /\ \E x \in 0..MaxTrips :
          hist = [calls |-> << >>, hostCalls |-> 0, starts |-> 0,
                  source |-> "ret", program |-> "ret",
                  choices |-> {[f |-> 1, args |-> << Tiny_NewNumber(x + 1) >>]},
                  x |-> x, callAt |-> {}, retAt |-> Tiny_Null, heapAt |-> 0,
                  event |-> Event("Tiny_InitThread", Tiny_InitThread, Tiny_InitThread,
                                  FALSE, NoCall)]

RetStart == hist.source = "ret" /\ hist.starts = 0 /\ StartThread

RetCycle == hist.source = "ret" /\ HostExecuteCycle

\* the host calls Tiny_CallFunction(thread, poke, x + 1), once
RetCall ==
    /\ hist.source = "ret"
    /\ HostTurn
    /\ hist.hostCalls = 0
    /\ \E c \in hist.choices :
          /\ thread' = Tiny_CallFunctionEnter(thread, c.f, c.args)
          /\ hist' = [hist EXCEPT
                !.hostCalls = @ + 1,
                !.calls = IF thread'.status = "ok"
                          THEN Append(@, ApiEntry(thread, c.f, c.args)) ELSE @,
                !.callAt = @ \cup {thread.pc},
                !.retAt = thread.retVal,
                !.heapAt = Len(thread.heap),
                !.event = Event("Tiny_CallFunction", thread, thread', FALSE, NoCall)]
    /\ UNCHANGED state

RetNested == hist.source = "ret" /\ NestedCycle

RetReturn == hist.source = "ret" /\ CallFunctionReturn

NextRet ==
    \/ RetStart
    \/ RetCycle
    \/ RetCall
    \/ RetNested
    \/ RetReturn

SpecRet == InitRet /\ [][NextRet]_vars

\* the GET_RETVAL after the CALL of seven
GetRetvalPc ==
    CHOOSE pc \in InstructionPcs(state.program, 0) :
        /\ state.program[pc + 1] = OP_GET_RETVAL
        /\ state.program[pc - 9 + 1] = OP_CALL

\* C37: when Tiny_CallFunction returns, pc, fp, sp and indirStackSize are
\* what they were before the call, and the return register holds the
\* callee's return value, x + 2, not what it held before the call; the
\* global the callee assigned and the string it allocated are still there.
\* The GET_RETVAL of y := seven() pushes the return register as it is then:
\* 7, or x + 2 when the host called poke while the thread stood at that
\* GET_RETVAL, after the cycle of seven's RETURN_VALUE; y ends up with it.
C37_ReturnRegisterNotSaved ==
    LET e == hist.event
        b == e.before
        global(name) == thread.globalVars[Tiny_GetGlobalIndex(state, name) + 1]
        returned == Tiny_NewNumber(hist.x + 2)
    IN  hist.source = "ret" =>
            /\ ~state.failed
            /\ thread.status = "ok"
            /\ e.kind = "Tiny_CallFunction:return" =>
                  /\ thread.retVal = returned
                  /\ thread.retVal = b.retVal
                  /\ thread.pc = e.call.pc
                  /\ thread.fp = e.call.fp
                  /\ thread.sp = e.call.sp
                  /\ thread.indirStackSize = e.call.indirStackSize
                  /\ global("g") = Tiny_NewNumber(hist.x + 1)
                  /\ Len(thread.heap) = hist.heapAt + 1
                  /\ Len(thread.heap) \in Listed(thread)
                  /\ ~thread.heap[Len(thread.heap)].freed
                  /\ thread.numObjects = Len(thread.gcHead)
            /\ (Executed(OP_GET_RETVAL) /\ b.pc = GetRetvalPc) =>
                  /\ Top(thread) = b.retVal
                  /\ Top(thread) = IF GetRetvalPc \in hist.callAt THEN returned
                                   ELSE Tiny_NewNumber(7)
            /\ (hist.starts > 0 /\ thread.pc < 0 /\ thread.cstack = << >>) =>
                  global("y") = IF GetRetvalPc \in hist.callAt THEN returned
                                ELSE Tiny_NewNumber(7)

\* the host called poke(2) after the cycle of seven's RETURN_VALUE, with 7
\* in the return register; the GET_RETVAL that followed pushed 3
C37_Witness ==
    /\ hist.source = "ret" /\ hist.x = 1
    /\ Executed(OP_GET_RETVAL)
    /\ hist.event.before.pc = GetRetvalPc
    /\ hist.callAt = {GetRetvalPc}
    /\ hist.retAt = Tiny_NewNumber(7)
    /\ Top(thread) = Tiny_NewNumber(3)
    /\ thread.globalVars[Tiny_GetGlobalIndex(state, "g") + 1] = Tiny_NewNumber(2)
    /\ thread.numObjects = 1

\* C38: on a thread that is initialized and not destroyed, in every state
\* (so after every allocation and every sweep, inside Tiny_CallFunction and
\* foreign callees too), numObjects is the length of the object list, no
\* object is in the list twice, and the listed objects are exactly the
\* allocated objects that have not been deleted.
C38_ListCountsObjects ==
    (hist.source = "compiler" /\ ~thread.destroyed /\ thread.status = "ok") =>
        /\ thread.numObjects = Len(thread.gcHead)
        /\ NoDuplicates(thread.gcHead)
        /\ Listed(thread) = {o \in 1..Len(thread.heap) : ~thread.heap[o].freed}

\* a cycle after a collection that had deleted objects has allocated one
\* more: the count went up by one and is not the number of objects ever
\* allocated
C38_Witness ==
    /\ hist.source = "compiler" /\ ~thread.destroyed /\ thread.status = "ok"
    /\ CycleEvent
    /\ thread.collections > 0
    /\ thread.collections = hist.event.before.collections
    /\ Len(thread.deleted) > 0
    /\ thread.numObjects = hist.event.before.numObjects + 1
    /\ thread.numObjects < Len(thread.heap)
    /\ thread.gcHead[1] = Len(thread.heap)

(***************************************************************************)
(* The indirection stack at its limits: recursion until it is full, a      *)
(* return outside every function, calls from the script and from the host. *)
(***************************************************************************)
MaxIndirSources == 3

\* func rec(n) { return rec(n) }
\* r := rec(x)
IndirDeep(x) ==
    << Func("rec", << "n" >>, Block(<< Ret(Call("rec", << Ident("n") >>)) >>)),
       Bin(":=", Ident("r"), Call("rec", << Number(x) >>)) >>

\* c := x
\* if c > 0 { return }
\* c = 5
IndirBare(x) ==
    << Bin(":=", Ident("c"), Number(x)),
       If(Bin(">", Ident("c"), Number(0)), Block(<< Ret(NoExpr) >>), NoExpr),
       Bin("=", Ident("c"), Number(5)) >>

\* func f(a) { return a + 1 }
\* func h(a, b) { return f(a) + f(b) }
\* r := h(x, 1)
IndirCalls(x) ==
    << Func("f", << "a" >>, Block(<< Ret(Bin("+", Ident("a"), Number(1))) >>)),
       Func("h", << "a", "b" >>,
            Block(<< Ret(Bin("+", Call("f", << Ident("a") >>),
                                  Call("f", << Ident("b") >>))) >>)),
       Bin(":=", Ident("r"), Call("h", << Number(x), Number(1) >>)) >>

\* the sources, by number
IndirSource(k, x) ==
    CASE k = 1 -> IndirDeep(x)
      [] k = 2 -> IndirBare(x)
      [] k = 3 -> IndirCalls(x)
      [] OTHER -> IndirCalls(x + k)

\* the calls the host may make: h(2, x) in the sources with f and h
IndirHostCalls(k, x) ==
    IF k >= 3 THEN {[f |-> 1, args |-> << Tiny_NewNumber(2), Tiny_NewNumber(x) >>]}
    ELSE {}

InitIndir ==
    /\ thread = Tiny_InitThread
    /\ \E k \in 1..MaxIndirSources, x \in 0..MaxTrips :
          /\ state = Tiny_CompileString(HostState, IndirSource(k, x))
          /\ hist = [calls |-> << >>, hostCalls |-> 0, starts |-> 0,
                     source |-> "indir", program |-> "indir",
                     choices |-> IndirHostCalls(k, x),
                     unit |-> k, x |-> x,
                     event |-> Event("Tiny_InitThread", Tiny_InitThread, Tiny_InitThread,
                                     FALSE, NoCall)]

IndirStart == hist.source = "indir" /\ StartThread

IndirCycle == hist.source = "indir" /\ HostExecuteCycle

IndirCall == hist.source = "indir" /\ HostCallFunction

IndirNested == hist.source = "indir" /\ NestedCycle

IndirReturn == hist.source = "indir" /\ CallFunctionReturn

NextIndir ==
    \/ IndirStart
    \/ IndirCycle
    \/ IndirCall
    \/ IndirNested
    \/ IndirReturn

SpecIndir == InitIndir /\ [][NextIndir]_vars

\* the open calls that pushed a frame: those of OP_CALL and Tiny_CallFunction
FrameCalls == SelectSeq(hist.calls, LAMBDA c : c.kind \in {"CALL", "API"})

\* frame i of the indirection stack, as the three entries from the bottom up
IndirFrame(t, i) == << t.indirStack[3 * i - 2], t.indirStack[3 * i - 1], t.indirStack[3 * i] >>

\* what the call pushed: nargs, the caller's fp, then pc as it was at the
\* push (after the operands of the CALL; Tiny_CallFunction has set pc to the
\* callee's entry before it pushes)
PushedFrame(c) ==
    << c.nargs, c.fp, IF c.kind = "CALL" THEN c.pc ELSE FunctionPc(c.f) >>

\* C39: indirStackSize is a multiple of 3 between 0 and the capacity in
\* every state, and the entries are the frames of the open calls, oldest
\* first, each nargs, fp, pc in that order from the bottom up.  A CALL or a
\* Tiny_CallFunction with less than 3 entries free and a RETURN or
\* RETURN_VALUE with less than 3 entries used end the process (the assert)
\* and leave the indirection stack and its size as they were; the others
\* push, or pop, exactly one frame.
C39_IndirFrames ==
    LET e == hist.event
        b == e.before
        n == thread.indirStackSize \div 3
    IN  hist.source = "indir" =>
            /\ ~state.failed
            /\ thread.indirStackSize % 3 = 0
            /\ thread.indirStackSize >= 0
            /\ thread.indirStackSize <= TINY_THREAD_INDIR_SIZE
            /\ n <= Len(FrameCalls)
            /\ Len(FrameCalls) <= n + 1
            /\ \A i \in 1..n : IndirFrame(thread, i) = PushedFrame(FrameCalls[i])
            /\ ((CycleEvent /\ e.op = OP_CALL) \/ e.kind = "Tiny_CallFunction") =>
                  IF b.indirStackSize + 3 > TINY_THREAD_INDIR_SIZE
                  THEN /\ thread.status = "exit"
                       /\ thread.indirStack = b.indirStack
                       /\ thread.indirStackSize = b.indirStackSize
                  ELSE thread.status = "ok" => thread.indirStackSize = b.indirStackSize + 3
            /\ (CycleEvent /\ e.op \in {OP_RETURN, OP_RETURN_VALUE}) =>
                  IF b.indirStackSize < 3
                  THEN /\ thread.status = "exit"
                       /\ thread.indirStack = b.indirStack
                       /\ thread.indirStackSize = b.indirStackSize
                  ELSE thread.status = "ok" =>
                          /\ thread.indirStackSize = b.indirStackSize - 3
                          /\ thread.indirStack = b.indirStack

\* the recursion has filled the indirection stack and the next CALL ended
\* the process
C39_Witness ==
    /\ hist.source = "indir" /\ hist.unit = 1
    /\ CycleEvent /\ hist.event.op = OP_CALL
    /\ thread.status = "exit"
    /\ thread.indirStackSize + 3 > TINY_THREAD_INDIR_SIZE
    /\ thread.indirStackSize >= 9
    /\ thread.indirStack[1] = 1

\* the return outside every function has ended the process with the
\* indirection stack empty
C39_WitnessUnderflow ==
    /\ hist.source = "indir" /\ hist.unit = 2 /\ hist.x = 1
    /\ CycleEvent /\ hist.event.op = OP_RETURN
    /\ thread.status = "exit"
    /\ thread.indirStackSize = 0

\* the locals of the current function that are not scope-ended
LiveLocals(st) == SelectSeq(CurrLocals(st), LAMBDA sym : ~sym.scopeEnded)

\* C40: DeclareLocal ends the process exactly when a local of the current
\* function in a scope that is still open, the current one or one around
\* it, has the name; an argument, a global or a constant of that name does
\* not stop it.  So no two locals of the current function that are not
\* scope-ended share a name.  A use of a name that a visible local has
\* refers to that local, also when an argument or a global has the name,
\* and to the argument or the global again once the local's scope has
\* closed.
C40_LocalNames ==
    LET e == hist.event
        live == LiveLocals(state)
    IN  /\ e.kind = "DeclareLocal" =>
              /\ state.failed <=> e.result
              /\ state.failed <=>
                    \E i \in 1..Len(CurrLocals(e.before)) :
                        /\ ~CurrLocals(e.before)[i].scopeEnded
                        /\ CurrLocals(e.before)[i].name = e.name
              /\ ~state.failed =>
                    /\ Last(CurrLocals(state)).name = e.name
                    /\ Last(CurrLocals(state)).scope = state.currScope
        /\ ~state.failed =>
              /\ \A i, j \in 1..Len(live) : live[i].name = live[j].name => i = j
              /\ \A name \in VarNames : Cardinality(VisibleLocals(name)) <= 1
        /\ e.kind = "ReferenceVariable" =>
              IF VisibleLocals(e.name) # {}
              THEN /\ e.result.type = "LOCAL"
                   /\ e.result.index >= 0
                   /\ ~e.result.scopeEnded
                   /\ \E k \in VisibleLocals(e.name) : hist.decls[k].index = e.result.index
              ELSE IF Declared({"arg"}, e.name) # {}
              THEN e.result.type = "LOCAL" /\ e.result.index < 0
              ELSE e.result.type \in {"GLOBAL", "CONST", "NONE"}

\* a declaration in a nested block ended the process: the name belongs to a
\* local of the enclosing block, and to an argument
C40_Witness ==
    LET e == hist.event
        before == CurrLocals(e.before)
    IN  /\ e.kind = "DeclareLocal"
        /\ state.failed
        /\ \E i \in 1..Len(before) :
              /\ before[i].name = e.name /\ ~before[i].scopeEnded
              /\ before[i].scope < e.before.currScope
        /\ \A i \in 1..Len(before) : before[i].scope # e.before.currScope
        /\ Declared({"arg"}, e.name) # {}

\* a use of a refers to the argument a again: the local a that shadowed it
\* was declared in a block that has closed
C40_WitnessShadow ==
    LET e == hist.event
    IN  /\ e.kind = "ReferenceVariable" /\ e.name = "a"
        /\ e.result.type = "LOCAL" /\ e.result.index < 0
        /\ \E i \in 1..Len(CurrLocals(state)) :
              CurrLocals(state)[i].name = "a" /\ CurrLocals(state)[i].scopeEnded

=============================================================================
